---- MODULE Spec2Model ----
(***************************************************************************)
(* Model of the build-configuration resolver of the Meshtastic firmware    *)
(* build service (api/src/firmware-info.ts): the extends-chain resolver    *)
(* resolveBuildFlags, the exclusion extractor, the config key mapper and   *)
(* their composition getEnvironmentConfigDefaults, the INI parser          *)
(* parseIniFile, and of the build cache and job manager (cache.ts,         *)
(* jobs.ts), the environment listing, the worker's flag generation         *)
(* (worker/build.sh), the SSE progress endpoint (api/src/index.ts) and the *)
(* option checkboxes and status panels of the web UI (web/src/main.ts).    *)
(*                                                                         *)
(* Strings are TLA+ strings; TLC evaluates Len, \o and SubSeq on them, so  *)
(* the string functions of the code are modelled character by character.   *)
(***************************************************************************)
EXTENDS Integers, Sequences, FiniteSets, TLC

VARIABLES
  firmwareDirExists, \* existsSync(FIRMWARE_DIR)
  tree,              \* file path -> section name -> parsed section data
  iniFiles,          \* findPlatformioIniFiles(FIRMWARE_DIR), in walk order
  envName,           \* argument of getEnvironmentConfigDefaults
  pc,                \* position inside getEnvironmentConfigDefaults
  stack,             \* activation records of resolveBuildFlags
  visited,           \* the visited set shared by one top-level resolution
  allFlags,          \* value returned by the top-level resolveBuildFlags
  exclusionFlags,    \* the exclusion Set, in insertion order
  result,            \* value returned by getEnvironmentConfigDefaults
  caught,            \* TRUE once the catch block (line 572) has run
  firstResult,       \* value returned by an earlier call with the same name
  buildFlags,        \* argument of a direct extractExclusionFlags call
  exclusions,        \* its result, in insertion order
  xpc,               \* position of the direct extractExclusionFlags call
  iniText,           \* text of the file handed to parseIniFile
  shape,             \* how that text was put together
  iniSections,       \* the Map parseIniFile returned
  iniBefore,         \* the Map it returned before the file was edited
  ppc,               \* position of the parseIniFile calls
  environments,      \* what parseEnvironmentsFromIni returned for the text
  jobs,              \* the module's Map of build jobs, by id
  cacheDir,          \* the directories under .buildcache, by cache key
  limiterQueue,      \* jobs scheduled on the limiter and not yet started
  limiterRunning,    \* jobs whose executeBuild the limiter is running
  jobCount,          \* number of createJob calls made
  optionStates,      \* web UI: configOptionStates, key -> checked
  showBuildStatus,   \* web UI: the reactive flags of the status panels
  showProgress,
  showDownload,
  showError,
  buildStatus,       \* web UI: the status shown
  eventSource,       \* web UI: the module's EventSource
  inFlight,          \* web UI: POST /build requests awaiting their response
  submits,           \* web UI: number of form submissions made
  stream             \* API: one SSE progress stream and its poll timer

resolverVars == <<firmwareDirExists, tree, iniFiles, envName, pc, stack,
                  visited, allFlags, exclusionFlags, result, caught,
                  firstResult>>
extractVars == <<buildFlags, exclusions, xpc>>
parseVars == <<iniText, shape, iniSections, iniBefore, ppc, environments>>
jobVars == <<jobs, cacheDir, limiterQueue, limiterRunning, jobCount>>
uiVars == <<optionStates, showBuildStatus, showProgress, showDownload, showError,
            buildStatus, eventSource, inFlight, submits>>
sseVars == <<stream>>
restVars == <<uiVars, sseVars>>
otherVars == <<extractVars, parseVars, jobVars, restVars>>
vars == <<resolverVars, otherVars>>

(***************************************************************************)
(* String helpers (JavaScript String.prototype semantics).                 *)
(***************************************************************************)
Ch(s, i) == SubSeq(s, i, i)

StartsWithAt(s, p, i) ==
  /\ i >= 1
  /\ i + Len(p) - 1 <= Len(s)
  /\ SubSeq(s, i, i + Len(p) - 1) = p

StartsWith(s, p) == StartsWithAt(s, p, 1)

\* s.indexOf(p), 1-based; 0 when p does not occur
IndexOf(s, p) ==
  LET hits == {i \in 1..Len(s) : StartsWithAt(s, p, i)}
  IN  IF hits = {} THEN 0 ELSE CHOOSE i \in hits : \A j \in hits : i <= j

Includes(s, p) == IndexOf(s, p) # 0

\* s.replace(p, r) with a string pattern: the first occurrence only
ReplaceFirst(s, p, r) ==
  LET i == IndexOf(s, p)
  IN  IF i = 0 THEN s
      ELSE SubSeq(s, 1, i - 1) \o r \o SubSeq(s, i + Len(p), Len(s))

IsWs(c) == c \in {" ", "\t", "\n", "\r"}

\* number of consecutive characters of s from position i that satisfy the set
RECURSIVE RunLen(_, _, _)
RunLen(s, i, set) ==
  IF i > Len(s) \/ Ch(s, i) \notin set THEN 0
  ELSE 1 + RunLen(s, i + 1, set)

WsChars == {" ", "\t", "\n", "\r"}

\* s.split(/\s+/)
RECURSIVE SplitWs(_)
SplitWs(s) ==
  LET ws == {i \in 1..Len(s) : IsWs(Ch(s, i))}
  IN  IF ws = {} THEN <<s>>
      ELSE LET i == CHOOSE k \in ws : \A j \in ws : k <= j
               n == RunLen(s, i, WsChars)
           IN  <<SubSeq(s, 1, i - 1)>> \o SplitWs(SubSeq(s, i + n, Len(s)))

\* s.split('_')
RECURSIVE SplitUnderscore(_)
SplitUnderscore(s) ==
  LET i == IndexOf(s, "_")
  IN  IF i = 0 THEN <<s>>
      ELSE <<SubSeq(s, 1, i - 1)>> \o SplitUnderscore(SubSeq(s, i + 1, Len(s)))

UpperChars == "ABCDEFGHIJKLMNOPQRSTUVWXYZ"
LowerChars == "abcdefghijklmnopqrstuvwxyz"

RECURSIVE MapChars(_, _, _)
MapChars(s, from, to) ==
  IF s = "" THEN ""
  ELSE LET c == Ch(s, 1)
           i == IndexOf(from, c)
       IN  (IF i = 0 THEN c ELSE Ch(to, i))
             \o MapChars(SubSeq(s, 2, Len(s)), from, to)

ToLowerCase(s) == MapChars(s, UpperChars, LowerChars)
ToUpperCase(s) == MapChars(s, LowerChars, UpperChars)

Count(x, seq) == Cardinality({i \in 1..Len(seq) : seq[i] = x})

Range(seq) == {seq[i] : i \in 1..Len(seq)}

\* Set.add on a Set kept in insertion order
SetAdd(seq, x) == IF x \in Range(seq) THEN seq ELSE Append(seq, x)

(***************************************************************************)
(* extractExclusionFlags (firmware-info.ts 432-446).                       *)
(***************************************************************************)
DefineSwitch == "-D"
ExcludePrefix == "MESHTASTIC_EXCLUDE_"
SymbolChars == {Ch(UpperChars, i) : i \in 1..Len(UpperChars)} \cup {"_"}
DigitChars == {"0", "1", "2", "3", "4", "5", "6", "7", "8", "9"}
Undefined == "<undefined>"
NoMatch == [matched |-> FALSE]

\* /-D\s*MESHTASTIC_EXCLUDE_([A-Z_]+)(?:=(\d+))?/ tried at position i
MatchAt(flag, i) ==
  IF ~StartsWithAt(flag, DefineSwitch, i) THEN NoMatch
  ELSE LET j == i + Len(DefineSwitch) + RunLen(flag, i + Len(DefineSwitch), WsChars)
       IN  IF ~StartsWithAt(flag, ExcludePrefix, j) THEN NoMatch
           ELSE LET k == j + Len(ExcludePrefix)
                    n == RunLen(flag, k, SymbolChars)
                    e == k + n
                    d == IF e <= Len(flag) /\ Ch(flag, e) = "="
                           THEN RunLen(flag, e + 1, DigitChars) ELSE 0
                IN  IF n = 0 THEN NoMatch
                    ELSE [matched |-> TRUE,
                          name |-> SubSeq(flag, k, e - 1),
                          value |-> IF d = 0 THEN Undefined
                                    ELSE SubSeq(flag, e + 1, e + d)]

\* flag.match(regex): the leftmost position at which the pattern matches
ExclusionMatch(flag) ==
  LET hits == {i \in 1..Len(flag) : MatchAt(flag, i).matched}
  IN  IF hits = {} THEN NoMatch
      ELSE MatchAt(flag, CHOOSE i \in hits : \A j \in hits : i <= j)

\* a flag with value 0 takes the symbol out again
ExtractOneCancels(acc, flag) ==
  LET match == ExclusionMatch(flag)
  IN  IF ~match.matched THEN acc
      ELSE LET exclusionName == match.name
               value == IF match.value # Undefined THEN match.value ELSE "1"
           IN  IF value = "1" THEN SetAdd(acc, exclusionName)
               ELSE IF value = "0"
                 THEN SelectSeq(acc, LAMBDA x : x # exclusionName)
               ELSE acc

\* the body of the for loop for one flag
ExtractOne(acc, flag) ==
  LET match == ExclusionMatch(flag)
  IN  IF ~match.matched THEN acc
      ELSE LET exclusionName == match.name
               value == IF match.value # Undefined THEN match.value ELSE "1"
           IN  IF value = "1" THEN SetAdd(acc, exclusionName) ELSE acc

RECURSIVE ExtractFrom(_, _)
ExtractFrom(acc, flags) ==
  IF flags = <<>> THEN acc
  ELSE ExtractFrom(ExtractOne(acc, Head(flags)), Tail(flags))

extractExclusionFlags(flags) == ExtractFrom(<<>>, flags)

(***************************************************************************)
(* mapExclusionToConfigKey (firmware-info.ts 449-498).                     *)
(***************************************************************************)
mapping ==
  [wifi |-> "excludeWifi",
   bluetooth |-> "excludeBluetooth",
   gps |-> "excludeGps",
   screen |-> "excludeScreen",
   mqtt |-> "excludeMqtt",
   powermon |-> "excludePowermon",
   i2c |-> "excludeI2c",
   pki |-> "excludePki",
   powerfsm |-> "excludePowerFsm",
   tz |-> "excludeTz",
   audio |-> "excludeAudio",
   detectionsensor |-> "excludeDetectionSensor",
   environmentalsensor |-> "excludeEnvironmentalSensor",
   healthtelemetry |-> "excludeHealthTelemetry",
   externalnotification |-> "excludeExternalNotification",
   paxcounter |-> "excludePaxcounter",
   powertelemetry |-> "excludePowerTelemetry",
   rangetest |-> "excludeRangetest",
   remotehardware |-> "excludeRemoteHardware",
   storeforward |-> "excludeStoreforward",
   textmessage |-> "excludeTextmessage",
   atak |-> "excludeAtak",
   cannedmessages |-> "excludeCannedmessages",
   neighborinfo |-> "excludeNeighborinfo",
   traceroute |-> "excludeTraceroute",
   waypoint |-> "excludeWaypoint",
   inputbroker |-> "excludeInputbroker",
   serial |-> "excludeSerial",
   powerstress |-> "excludePowerStress",
   admin |-> "excludeAdmin",
   webserver |-> "excludeWifi"]

\* `mapping` is an object literal: a key it does not own is looked up on
\* Object.prototype, whose camel-case-reachable members are functions
ObjectPrototypeKeys ==
  {"constructor", "toString", "valueOf", "toLocaleString", "hasOwnProperty",
   "isPrototypeOf", "propertyIsEnumerable"}
InheritedFunction(k) == "[Function: " \o k \o "]"
Null == "<null>"

\* parts[i][0].toUpperCase() + parts[i].slice(1), for a non-empty part
Capitalize(p) == ToUpperCase(Ch(p, 1)) \o SubSeq(p, 2, Len(p))

RECURSIVE CamelTail(_)
CamelTail(parts) ==
  IF parts = <<>> THEN ""
  ELSE Capitalize(Head(parts)) \o CamelTail(Tail(parts))

CamelCase(exclusionFlag) ==
  LET parts == SplitUnderscore(ToLowerCase(exclusionFlag))
  IN  Head(parts) \o CamelTail(Tail(parts))

\* parts[i][0] is undefined for an empty part with i >= 1: TypeError
MapThrows(exclusionFlag) ==
  LET parts == SplitUnderscore(ToLowerCase(exclusionFlag))
  IN  \E i \in 2..Len(parts) : parts[i] = ""

\* defined where MapThrows is false
mapExclusionToConfigKey(exclusionFlag) ==
  LET camelCase == CamelCase(exclusionFlag)
  IN  IF Includes(exclusionFlag, "ENVIRONMENTAL_SENSOR_EXTERNAL")
        THEN "excludeEnvironmentalSensor"
      ELSE IF camelCase \in DOMAIN mapping THEN mapping[camelCase]
      ELSE IF camelCase \in ObjectPrototypeKeys THEN InheritedFunction(camelCase)
      ELSE Null

(***************************************************************************)
(* The file tree.  tree[path] is what parseIniFile(path) returns for an    *)
(* existing file: section name -> data.  A key the section does not set    *)
(* and a key set to the empty string are both "", which every reader of    *)
(* data.build_flags, data.extends and data.build_src_filter treats alike.  *)
(***************************************************************************)
FIRMWARE_DIR == "firmware"
Join(a, b) == a \o "/" \o b
mainIni == Join(FIRMWARE_DIR, "platformio.ini")
archDirs == <<"nrf52", "esp32", "esp32s3", "esp32c3", "esp32c6", "esp32s2",
              "rp2xx0", "rp2040", "rp2350", "stm32">>

NoSections == [n \in {} |-> n]

existsSync(path) == firmwareDirExists /\ path \in DOMAIN tree

\* parseIniFile(filePath): no sections for a file that cannot be read
parseIniFile(filePath) ==
  IF existsSync(filePath) THEN tree[filePath] ELSE NoSections

\* first element of seq that satisfies Test, or Null
RECURSIVE FirstWith(_, _)
FirstWith(seq, ok) ==
  IF seq = <<>> THEN Null
  ELSE IF Head(seq) \in ok THEN Head(seq)
  ELSE FirstWith(Tail(seq), ok)

findEnvironmentFile(name) ==
  FirstWith(iniFiles,
            {f \in Range(iniFiles) : ("env:" \o name) \in DOMAIN parseIniFile(f)})

\* the two candidate paths of one architecture directory, in the order tried
ArchCandidates(archDir, baseName) ==
  LET archPath == Join(FIRMWARE_DIR, "arch")
      baseOnly == ReplaceFirst(baseName, "_base", "")
  IN  <<Join(Join(archPath, archDir), baseName \o ".ini"),
        Join(Join(archPath, archDir), baseOnly \o ".ini")>>

RECURSIVE AllArchCandidates(_, _)
AllArchCandidates(dirs, baseName) ==
  IF dirs = <<>> THEN <<>>
  ELSE ArchCandidates(Head(dirs), baseName)
         \o AllArchCandidates(Tail(dirs), baseName)

findArchBaseFile(baseName) ==
  LET cands == AllArchCandidates(archDirs, baseName)
  IN  FirstWith(cands, {f \in Range(cands) : existsSync(f)})

(***************************************************************************)
(* parseIniFile on the text of one file (firmware-info.ts 221-303).        *)
(***************************************************************************)
\* s.trim()
Trim(s) ==
  LET keep == {i \in 1..Len(s) : ~IsWs(Ch(s, i))}
  IN  IF keep = {} THEN ""
      ELSE SubSeq(s, CHOOSE i \in keep : \A j \in keep : i <= j,
                     CHOOSE i \in keep : \A j \in keep : i >= j)

\* content.split('\n')
RECURSIVE SplitLines(_)
SplitLines(s) ==
  LET i == IndexOf(s, "\n")
  IN  IF i = 0 THEN <<s>>
      ELSE <<SubSeq(s, 1, i - 1)>> \o SplitLines(SubSeq(s, i + 1, Len(s)))

\* parts.join(' ')
RECURSIVE JoinSpace(_)
JoinSpace(parts) ==
  IF parts = <<>> THEN ""
  ELSE IF Len(parts) = 1 THEN Head(parts)
  ELSE Head(parts) \o " " \o JoinSpace(Tail(parts))

\* trimmed.match(/^\[([^\]]+)\]$/)
IsSectionHeader(trimmed) ==
  /\ Len(trimmed) >= 3
  /\ Ch(trimmed, 1) = "["
  /\ Ch(trimmed, Len(trimmed)) = "]"
  /\ ~Includes(SubSeq(trimmed, 2, Len(trimmed) - 1), "]")

HeaderName(trimmed) == SubSeq(trimmed, 2, Len(trimmed) - 1)

\* the key taken up to the last "=" of the line
KeyValueMatchLastEquals(trimmed) ==
  LET eqs == {i \in 1..Len(trimmed) : Ch(trimmed, i) = "="}
      i == IF eqs = {} THEN 0 ELSE CHOOSE m \in eqs : \A j \in eqs : m >= j
  IN  IF i < 2 THEN NoMatch
      ELSE [matched |-> TRUE, key |-> SubSeq(trimmed, 1, i - 1),
            value |-> SubSeq(trimmed, i + 1, Len(trimmed))]

\* trimmed.match(/^([^=]+)=(.*)$/): the key ends at the first "=", and the
\* dot matches no line terminator
KeyValueMatch(trimmed) ==
  LET i == IndexOf(trimmed, "=")
      rest == SubSeq(trimmed, i + 1, Len(trimmed))
  IN  IF i < 2 \/ Includes(rest, "\r") \/ Includes(rest, "\n") THEN NoMatch
      ELSE [matched |-> TRUE, key |-> SubSeq(trimmed, 1, i - 1), value |-> rest]

NoData == [k \in {} |-> ""]

\* obj[key] = value on a Record<string, string>, and Map.set
Put(f, k, v) == [x \in DOMAIN f \cup {k} |-> IF x = k THEN v ELSE f[x]]

IniSection(name, data, rawContent) ==
  [name |-> name, data |-> data, rawContent |-> rawContent]

\* lines 226-230: the parser's locals before the first line
ParserStart ==
  [sections |-> NoSections, currentSection |-> Null, currentData |-> NoData,
   currentRawContent |-> "", currentKey |-> Null, currentValue |-> <<>>]

\* currentKey is truthy
KeyPending(st) == st.currentKey # Null /\ st.currentKey # ""

\* the value parts joined without a separator
FlushKeyUnspaced(st) ==
  Put(st.currentData, st.currentKey,
      Trim(IF st.currentValue = <<>> THEN ""
           ELSE Head(st.currentValue) \o JoinSpace(Tail(st.currentValue))))

\* currentData[currentKey] = currentValue.join(' ').trim()
FlushKey(st) == Put(st.currentData, st.currentKey, Trim(JoinSpace(st.currentValue)))

\* lines 245-249 and 294-298: the current section is stored
SaveSection(st, data) ==
  Put(st.sections, st.currentSection,
      IniSection(st.currentSection, data, st.currentRawContent))

\* lines 237-254: a section header line
ParseHeader(st, line, trimmed) ==
  LET flush == st.currentSection # Null /\ KeyPending(st)
      data == IF flush THEN FlushKey(st) ELSE st.currentData
  IN  [sections |-> IF st.currentSection # Null THEN SaveSection(st, data)
                    ELSE st.sections,
       currentSection |-> HeaderName(trimmed),
       currentData |-> NoData,
       currentRawContent |-> line \o "\n",
       currentKey |-> IF flush THEN Null ELSE st.currentKey,
       currentValue |-> IF flush THEN <<>> ELSE st.currentValue]

\* lines 255-282: a line of a section that is neither blank nor a comment
ParseEntry(st, line, trimmed) ==
  LET isContinuation ==
        (StartsWith(line, " ") \/ StartsWith(line, "\t")) /\ KeyPending(st)
      raw == st.currentRawContent \o line \o "\n"
      data == IF KeyPending(st) THEN FlushKey(st) ELSE st.currentData
      value == IF KeyPending(st) THEN <<>> ELSE st.currentValue
      match == KeyValueMatch(trimmed)
  IN  IF isContinuation
        THEN [st EXCEPT !.currentValue = Append(@, trimmed),
                        !.currentRawContent = raw]
      ELSE IF match.matched
        THEN LET valuePart == Trim(match.value)
             IN  [st EXCEPT !.currentData = data,
                            !.currentKey = Trim(match.key),
                            !.currentValue = IF valuePart # ""
                                               THEN Append(value, valuePart)
                                               ELSE value,
                            !.currentRawContent = raw]
      ELSE [st EXCEPT !.currentData = data,
                      !.currentValue = value,
                      !.currentRawContent = raw]

\* lines 233-285: the body of the loop for one line
ParseLine(st, line) ==
  LET trimmed == Trim(line)
  IN  IF IsSectionHeader(trimmed) THEN ParseHeader(st, line, trimmed)
      ELSE IF /\ st.currentSection # Null
              /\ trimmed # ""
              /\ ~StartsWith(trimmed, ";")
              /\ ~StartsWith(trimmed, "#")
        THEN ParseEntry(st, line, trimmed)
      ELSE IF st.currentSection # Null
        THEN [st EXCEPT !.currentRawContent = @ \o line \o "\n"]
      ELSE st

RECURSIVE ParseLines(_, _)
ParseLines(st, lines) ==
  IF lines = <<>> THEN st ELSE ParseLines(ParseLine(st, Head(lines)), Tail(lines))

\* lines 288-298: the last key and the last section are stored
ParseEnd(st) ==
  LET data == IF st.currentSection # Null /\ KeyPending(st)
                THEN FlushKey(st) ELSE st.currentData
  IN  IF st.currentSection # Null THEN SaveSection(st, data) ELSE st.sections

\* parseIniFile applied to the text read from the file
parseIniText(content) == ParseEnd(ParseLines(ParserStart, SplitLines(content)))

(***************************************************************************)
(* resolveBuildFlags (firmware-info.ts 339-429) as an explicit call stack. *)
(***************************************************************************)
VisitKey(filePath, sectionName) == filePath \o "::" \o sectionName

\* the cycle guard left out
AlreadyVisitedNever(key) == FALSE

\* line 345
AlreadyVisited(key) == key \in visited

\* visited.add(key) left out
MarkVisitedForgets(key) == visited

\* line 348
MarkVisited(key) == visited \cup {key}

\* the filter keeping variable substitutions
KeepFlagPartAny(f) == f # ""

\* lines 363-367: the filter callback (a token holds no whitespace to trim)
KeepFlagPart(f) == f # "" /\ ~StartsWith(f, "${")

RECURSIVE FilterFlagParts(_)
FilterFlagParts(parts) ==
  IF parts = <<>> THEN <<>>
  ELSE (IF KeepFlagPart(Head(parts))
          THEN <<Head(parts)>> ELSE <<>>) \o FilterFlagParts(Tail(parts))

\* lines 356-369: the section's own flags
OwnFlags(section) ==
  IF section.build_flags = "" THEN <<>>
  ELSE FilterFlagParts(SplitWs(section.build_flags))

Target(sectionName, filePath) == [sectionName |-> sectionName, filePath |-> filePath]

\* the locator asked first, the section's own file never preferred
EnvTargetsLocatorFirst(extendsValue, filePath) ==
  LET envFile == findEnvironmentFile(ReplaceFirst(extendsValue, "env:", ""))
  IN  IF envFile # Null THEN <<Target(extendsValue, envFile)>> ELSE <<>>

\* lines 375-387: an extends value that starts with "env:"
EnvTargets(extendsValue, filePath) ==
  IF extendsValue \in DOMAIN parseIniFile(filePath)
    THEN <<Target(extendsValue, filePath)>>
  ELSE LET envFile == findEnvironmentFile(ReplaceFirst(extendsValue, "env:", ""))
       IN  IF envFile # Null THEN <<Target(extendsValue, envFile)>> ELSE <<>>

\* the root-defaults pickup reading section `env` of the current file
BaseTargetsEnvOfCurrentFile(extendsValue, filePath) ==
  LET inSameFile == extendsValue \in DOMAIN parseIniFile(filePath)
      archFile == IF ~inSameFile /\ Includes(extendsValue, "_base")
                    THEN findArchBaseFile(ReplaceFirst(extendsValue, "_base", ""))
                    ELSE Null
      resolved == inSameFile \/ archFile # Null
      inMain == /\ ~resolved
                /\ existsSync(mainIni)
                /\ filePath # mainIni
                /\ extendsValue \in DOMAIN parseIniFile(mainIni)
      envBase == /\ filePath # mainIni
                 /\ existsSync(mainIni)
                 /\ "env" \in DOMAIN parseIniFile(filePath)
  IN  (IF inSameFile THEN <<Target(extendsValue, filePath)>> ELSE <<>>)
        \o (IF archFile # Null THEN <<Target(extendsValue, archFile)>> ELSE <<>>)
        \o (IF inMain THEN <<Target(extendsValue, mainIni)>> ELSE <<>>)
        \o (IF envBase THEN <<Target("env", filePath)>> ELSE <<>>)

\* lines 389-424: a bare base section reference
BaseTargets(extendsValue, filePath) ==
  LET inSameFile == extendsValue \in DOMAIN parseIniFile(filePath)
      archFile == IF ~inSameFile /\ Includes(extendsValue, "_base")
                    THEN findArchBaseFile(ReplaceFirst(extendsValue, "_base", ""))
                    ELSE Null
      resolved == inSameFile \/ archFile # Null
      inMain == /\ ~resolved
                /\ existsSync(mainIni)
                /\ filePath # mainIni
                /\ extendsValue \in DOMAIN parseIniFile(mainIni)
      envBase == /\ filePath # mainIni
                 /\ existsSync(mainIni)
                 /\ "env" \in DOMAIN parseIniFile(mainIni)
  IN  (IF inSameFile THEN <<Target(extendsValue, filePath)>> ELSE <<>>)
        \o (IF archFile # Null THEN <<Target(extendsValue, archFile)>> ELSE <<>>)
        \o (IF inMain THEN <<Target(extendsValue, mainIni)>> ELSE <<>>)
        \o (IF envBase THEN <<Target("env", mainIni)>> ELSE <<>>)

\* only the first of the calls is made: no root-defaults pickup after an
\* explicit target was found
ExtendsTargetsFirstOnly(section, filePath) ==
  LET extendsValue == section.extends
      all == IF extendsValue = "" THEN <<>>
             ELSE IF StartsWith(extendsValue, "env:")
               THEN EnvTargets(extendsValue, filePath)
             ELSE BaseTargets(extendsValue, filePath)
  IN  IF all = <<>> THEN <<>> ELSE <<Head(all)>>

\* lines 372-426: the recursive calls one activation makes, in order.  The
\* conditions read only the file tree and `resolved`, never a returned list.
ExtendsTargets(section, filePath) ==
  LET extendsValue == section.extends
  IN  IF extendsValue = "" THEN <<>>
      ELSE IF StartsWith(extendsValue, "env:")
        THEN EnvTargets(extendsValue, filePath)
      ELSE BaseTargets(extendsValue, filePath)

Frame(sectionName, filePath) ==
  LET section == parseIniFile(filePath)[sectionName]
  IN  [sectionName |-> sectionName,
       filePath |-> filePath,
       flags |-> OwnFlags(section),
       pending |-> ExtendsTargets(section, filePath)]

(***************************************************************************)
(* checkSrcFilterExclusions (firmware-info.ts 501-523).                    *)
(***************************************************************************)
checkSrcFilterExclusions(filePath, sectionName) ==
  LET sections == parseIniFile(filePath)
  IN  IF sectionName \notin DOMAIN sections THEN <<>>
      ELSE LET srcFilter == sections[sectionName].build_src_filter
           IN  (IF Includes(srcFilter, "-<mesh/wifi/>") THEN <<"WIFI">> ELSE <<>>)
                 \o (IF Includes(srcFilter, "-<nimble/>")
                        \/ Includes(srcFilter, "-<mesh/ble/>")
                       THEN <<"BLUETOOTH">> ELSE <<>>)

RECURSIVE AddAll(_, _)
AddAll(acc, seq) ==
  IF seq = <<>> THEN acc ELSE AddAll(SetAdd(acc, Head(seq)), Tail(seq))

(***************************************************************************)
(* getEnvironmentConfigDefaults (firmware-info.ts 531-576).                *)
(***************************************************************************)
Pending == [pending |-> TRUE]
EmptyConfig == [k \in {} |-> TRUE]
\* a default exclusion handed out for an unknown environment
NotFoundDefaultsPreset ==
  [config |-> [k \in {"excludeWifi"} |-> TRUE], hardExclusions |-> <<"excludeWifi">>]

\* lines 535 and 542: the value returned when there is nothing to resolve
NotFoundDefaults == [config |-> EmptyConfig, hardExclusions |-> <<>>]
\* line 574: the value returned by the catch block
CaughtDefaults == [config |-> EmptyConfig, hardExclusions |-> <<>>]

\* lines 560-569: the forEach over the exclusion Set, when no mapping throws
RECURSIVE MapAll(_, _)
MapAll(acc, flags) ==
  IF flags = <<>> THEN acc
  ELSE LET configKey == mapExclusionToConfigKey(Head(flags))
           next == IF configKey # Null
                     THEN [config |-> [k \in DOMAIN acc.config \cup {configKey} |-> TRUE],
                           hardExclusions |-> Append(acc.hardExclusions, configKey)]
                     ELSE acc
       IN  MapAll(next, Tail(flags))

\* no earlier call was made
NotCalled == [called |-> FALSE]

\* a visited set kept from the call before
NewVisitedCarried == visited

\* line 342: the default argument, a new Set for every top-level call
NewVisited == {}

\* bound on the depth of the call stack (the code has none)
MaxDepth == 9

Top == stack[Len(stack)]

\* lines 534-536
FirmwareDirMissing ==
  /\ pc = "start"
  /\ ~firmwareDirExists
  /\ result' = NotFoundDefaults
  /\ pc' = "done"
  /\ UNCHANGED <<firmwareDirExists, tree, iniFiles, envName, stack, visited,
                 allFlags, exclusionFlags, caught, firstResult, otherVars>>

\* lines 539-543
EnvironmentNotFound ==
  /\ pc = "start"
  /\ firmwareDirExists
  /\ findEnvironmentFile(envName) = Null
  /\ result' = NotFoundDefaults
  /\ pc' = "done"
  /\ UNCHANGED <<firmwareDirExists, tree, iniFiles, envName, stack, visited,
                 allFlags, exclusionFlags, caught, firstResult, otherVars>>

\* line 546: the top-level call, entered with a fresh visited set
StartResolve ==
  /\ pc = "start"
  /\ firmwareDirExists
  /\ findEnvironmentFile(envName) # Null
  /\ LET envFile == findEnvironmentFile(envName)
         sectionName == "env:" \o envName
     IN  /\ visited' = NewVisited \cup {VisitKey(envFile, sectionName)}
         /\ stack' = <<Frame(sectionName, envFile)>>
  /\ pc' = "resolve"
  /\ UNCHANGED <<firmwareDirExists, tree, iniFiles, envName, allFlags,
                 exclusionFlags, result, caught, firstResult, otherVars>>

\* the caller's record once the call for its first pending target was made
Called == [stack EXCEPT ![Len(stack)].pending = Tail(@)]

\* lines 344-347: the callee was visited before and returns []
CallCircular ==
  /\ pc = "resolve"
  /\ Top.pending # <<>>
  /\ LET t == Head(Top.pending)
     IN  AlreadyVisited(VisitKey(t.filePath, t.sectionName))
  /\ stack' = Called
  /\ UNCHANGED <<firmwareDirExists, tree, iniFiles, envName, pc, visited,
                 allFlags, exclusionFlags, result, caught, firstResult, otherVars>>

\* lines 348-354: the callee's file does not define the section
CallMissing ==
  /\ pc = "resolve"
  /\ Top.pending # <<>>
  /\ LET t == Head(Top.pending)
         key == VisitKey(t.filePath, t.sectionName)
     IN  /\ ~AlreadyVisited(key)
         /\ t.sectionName \notin DOMAIN parseIniFile(t.filePath)
         /\ visited' = MarkVisited(key)
  /\ stack' = Called
  /\ UNCHANGED <<firmwareDirExists, tree, iniFiles, envName, pc, allFlags,
                 exclusionFlags, result, caught, firstResult, otherVars>>

\* lines 348-369: the callee collects its own flags and starts on its extends
CallEnter ==
  /\ pc = "resolve"
  /\ Top.pending # <<>>
  /\ Len(stack) < MaxDepth
  /\ LET t == Head(Top.pending)
         key == VisitKey(t.filePath, t.sectionName)
     IN  /\ ~AlreadyVisited(key)
         /\ t.sectionName \in DOMAIN parseIniFile(t.filePath)
         /\ visited' = MarkVisited(key)
         /\ stack' = Append(Called, Frame(t.sectionName, t.filePath))
  /\ UNCHANGED <<firmwareDirExists, tree, iniFiles, envName, pc, allFlags,
                 exclusionFlags, result, caught, firstResult, otherVars>>

\* the returned list put in front of the caller's flags
PushReturnedFirst(flags, returned) == returned \o flags

\* flags.push(...resolveBuildFlags(...)): lines 379, 385, 394, 403, 413, 422
PushReturned(flags, returned) == flags \o returned

\* line 428 and the caller's flags.push(...resolveBuildFlags(...))
Return ==
  /\ pc = "resolve"
  /\ Top.pending = <<>>
  /\ Len(stack) > 1
  /\ LET n == Len(stack)
     IN  stack' = [SubSeq(stack, 1, n - 1) EXCEPT
                     ![n - 1].flags = PushReturned(@, Top.flags)]
  /\ UNCHANGED <<firmwareDirExists, tree, iniFiles, envName, pc, visited,
                 allFlags, exclusionFlags, result, caught, firstResult, otherVars>>

\* line 428 of the top-level call: allFlags is bound (line 546)
ReturnAllFlags ==
  /\ pc = "resolve"
  /\ Top.pending = <<>>
  /\ Len(stack) = 1
  /\ allFlags' = Top.flags
  /\ stack' = <<>>
  /\ pc' = "extract"
  /\ UNCHANGED <<firmwareDirExists, tree, iniFiles, envName, visited,
                 exclusionFlags, result, caught, firstResult, otherVars>>

\* lines 549-557
ExtractExclusions ==
  /\ pc = "extract"
  /\ LET envFile == findEnvironmentFile(envName)
         sectionName == "env:" \o envName
         fromFlags == extractExclusionFlags(allFlags)
     IN  exclusionFlags' =
           IF sectionName \in DOMAIN parseIniFile(envFile)
             THEN AddAll(fromFlags, checkSrcFilterExclusions(envFile, sectionName))
             ELSE fromFlags
  /\ pc' = "map"
  /\ UNCHANGED <<firmwareDirExists, tree, iniFiles, envName, stack, visited,
                 allFlags, result, caught, firstResult, otherVars>>

\* lines 560-571
MapExclusions ==
  /\ pc = "map"
  /\ \A i \in 1..Len(exclusionFlags) : ~MapThrows(exclusionFlags[i])
  /\ result' = MapAll([config |-> EmptyConfig, hardExclusions |-> <<>>],
                       exclusionFlags)
  /\ pc' = "done"
  /\ UNCHANGED <<firmwareDirExists, tree, iniFiles, envName, stack, visited,
                 allFlags, exclusionFlags, caught, firstResult, otherVars>>

\* lines 572-575: mapExclusionToConfigKey threw inside the forEach
MapCaught ==
  /\ pc = "map"
  /\ \E i \in 1..Len(exclusionFlags) : MapThrows(exclusionFlags[i])
  /\ result' = CaughtDefaults
  /\ caught' = TRUE
  /\ pc' = "done"
  /\ UNCHANGED <<firmwareDirExists, tree, iniFiles, envName, stack, visited,
                 allFlags, exclusionFlags, firstResult, otherVars>>

\* the caller calls getEnvironmentConfigDefaults again with the same name;
\* the locals of the finished call are gone
CallAgain ==
  /\ pc = "done"
  /\ firstResult = NotCalled
  /\ firstResult' = result
  /\ pc' = "start"
  /\ stack' = <<>>
  /\ allFlags' = <<>>
  /\ exclusionFlags' = <<>>
  /\ result' = Pending
  /\ caught' = FALSE
  /\ UNCHANGED <<firmwareDirExists, tree, iniFiles, envName, visited, otherVars>>

(***************************************************************************)
(* Inputs: file trees, environment names and flag lists.                   *)
(***************************************************************************)
Sec(flags, ext, filter) ==
  [build_flags |-> flags, extends |-> ext, build_src_filter |-> filter]

variantIni == Join(Join(Join(FIRMWARE_DIR, "variants"), "x"), "platformio.ini")
archIni == Join(Join(Join(FIRMWARE_DIR, "arch"), "nrf52"), "nrf52.ini")
variantIniY == Join(Join(Join(FIRMWARE_DIR, "variants"), "y"), "platformio.ini")

DefineFlag(symbol, suffix) == DefineSwitch \o ExcludePrefix \o symbol \o suffix

Absent == "<absent>"
\* the architecture file exists but does not define the section looked for
Misnamed == "<misnamed>"

\* the sections of one file: slots[name] is the section's extends value, or
\* Absent; every section carries its own marker flag and one exclusion define
FileOf(slots, tag, symbols) ==
  [n \in {m \in DOMAIN slots : slots[m] # Absent} |->
     Sec("-D" \o tag \o "_" \o n \o " " \o DefineFlag(symbols[n], ""),
         slots[n], "")]

TopoTree(va, vb, vc, me, mc, mcc, ab) ==
  LET v == FileOf([a |-> va, b |-> vb, c |-> vc], "V",
                  [a |-> "GPS", b |-> "SCREEN", c |-> "MQTT"])
      m == FileOf([a |-> me, b |-> mc, c |-> mcc], "M",
                  [a |-> "PKI", b |-> "TZ", c |-> "AUDIO"])
      r == FileOf([a |-> IF ab = Misnamed THEN "" ELSE ab], "A", [a |-> "SERIAL"])
      name == [a |-> "env:a", b |-> "env:b", c |-> "common"]
      mname == [a |-> "env", b |-> "common", c |-> "env:c"]
      rename(f, nm) == [s \in {nm[k] : k \in DOMAIN f} |->
                          f[CHOOSE k \in DOMAIN f : nm[k] = s]]
      files == {variantIni}
                 \cup (IF DOMAIN m # {} THEN {mainIni} ELSE {})
                 \cup (IF DOMAIN r # {} THEN {archIni} ELSE {})
  IN  [f \in files |->
         IF f = variantIni THEN rename(v, name)
         ELSE IF f = mainIni THEN rename(m, mname)
         ELSE IF ab = Misnamed THEN [s \in {"esp32_base"} |-> r["a"]]
         ELSE rename(r, [a |-> "nrf52_base"])]

\* files named platformio.ini, in the order of the directory walk
WalkOrder(t) ==
  (IF mainIni \in DOMAIN t THEN <<mainIni>> ELSE <<>>) \o <<variantIni>>
    \o (IF variantIniY \in DOMAIN t THEN <<variantIniY>> ELSE <<>>)

TopoInputs ==
  {[tree |-> TopoTree(va, vb, vc, me, mc, mcc, ab), envName |-> e, mainFirst |-> TRUE] :
     va \in {"env:b", "env:c", "common", "nrf52_base", "missing_base", "env"},
     vb \in {Absent, "env:a", "common"},
     vc \in {Absent, "", "env:a", "env"},
     me \in {Absent, "", "common"},
     mc \in {Absent, "env", "env:c"},
     mcc \in {Absent, "env:a"},
     ab \in {Absent, "common", Misnamed},
     e \in {"a", "c"}}

FlagValues ==
  {"",
   DefineFlag("GPS", ""),
   DefineFlag("GPS", "=1"),
   DefineFlag("GPS", "=0"),
   "-D " \o ExcludePrefix \o "GPS",
   DefineFlag("ZZZNOTREAL", "") \o " " \o DefineFlag("GPS", ""),
   DefineFlag("FOO_", "") \o " " \o DefineFlag("GPS", ""),
   "${env.build_flags} -Isrc\t" \o DefineFlag("WEBSERVER", "") \o " " \o DefineFlag("WIFI", "")}

SrcFilters ==
  {"",
   "${env.build_src_filter} -<mesh/wifi/>",
   "+<*> -<nimble/>",
   "-<mesh/ble/> -<mesh/wifi/> -<platform/esp32/>"}

\* build_flags values of the base section [common]
CommonFlagValues ==
  {DefineFlag("MQTT", ""),
   "-D " \o ExcludePrefix \o "MQTT",
   "${env.build_flags} " \o DefineFlag("MQTT", "") \o " ${sysenv.EXTRA}",
   DefineFlag("GPS", "")}

FlagTree(fa, ext, filter, fc) ==
  [f \in {mainIni, variantIni} |->
     IF f = variantIni
       THEN [s \in {"env:a", "common", "env"} |->
               IF s = "env:a" THEN Sec(fa, ext, filter)
               ELSE IF s = "common" THEN Sec(fc, "", "")
               ELSE Sec(DefineFlag("TZ", ""), "", "")]
       ELSE [s \in {"env"} |-> Sec(DefineFlag("PKI", ""), "", "")]]

FlagInputs ==
  {[tree |-> FlagTree(fa, ext, filter, fc), envName |-> e, mainFirst |-> TRUE] :
     fa \in FlagValues,
     ext \in {"", "common", "missing_base", "env:zz"},
     filter \in SrcFilters,
     fc \in CommonFlagValues,
     e \in {"a", "zz"}}

\* env:a defined by both platformio.ini files; the walk may meet either first
BothTree ==
  [f \in {mainIni, variantIni} |->
     IF f = variantIni
       THEN [s \in {"env:a"} |-> Sec(DefineFlag("GPS", ""), "", "")]
       ELSE [s \in {"env:a", "env"} |->
               IF s = "env:a" THEN Sec(DefineFlag("MQTT", ""), "env", "")
               ELSE Sec(DefineFlag("PKI", ""), "", "")]]

BothInputs ==
  {[tree |-> BothTree, envName |-> "a", mainFirst |-> b] : b \in BOOLEAN}

\* [env:a] of the variant file extends a bare base section that its own
\* file does not define; the root file may define it, and the architecture
\* file may be missing, define it, or exist without defining it
RootBaseTree(base, rootHasBase, rootHasEnv, arch) ==
  LET rootNames == {"env:zz"} \cup (IF rootHasBase THEN {base} ELSE {})
                     \cup (IF rootHasEnv THEN {"env"} ELSE {})
      files == {variantIni, mainIni} \cup (IF arch = Absent THEN {} ELSE {archIni})
  IN  [f \in files |->
         IF f = variantIni
           THEN [n \in {"env:a"} |->
                   Sec("-DV_a " \o DefineFlag("GPS", ""), base, "")]
         ELSE IF f = mainIni
           THEN [n \in rootNames |->
                   IF n = base THEN Sec("-DM_base " \o DefineFlag("MQTT", ""), "", "")
                   ELSE IF n = "env" THEN Sec(DefineFlag("PKI", ""), "", "")
                   ELSE Sec("", "", "")]
         ELSE [n \in {IF arch = Misnamed THEN "esp32_base" ELSE base} |->
                 Sec("-DA_base " \o DefineFlag("SERIAL", ""), "", "")]]

RootBaseInputs ==
  {[tree |-> RootBaseTree(base, rb, re, arch), envName |-> "a", mainFirst |-> TRUE] :
     base \in {"nrf52_base", "arduino_base", "common"},
     rb \in BOOLEAN,
     re \in BOOLEAN,
     arch \in {Absent, "defined", Misnamed}}

\* [env:a] of variants/x extends [env:b], which its own file, the root file
\* and the file of variants/y may each define, with flags of their own
EnvRefTree(inX, inMain, inY) ==
  LET files == {variantIni} \cup (IF inMain THEN {mainIni} ELSE {})
                 \cup (IF inY THEN {variantIniY} ELSE {})
  IN  [f \in files |->
         IF f = variantIni
           THEN [n \in {"env:a"} \cup (IF inX THEN {"env:b"} ELSE {}) |->
                   IF n = "env:a" THEN Sec("-DX_a " \o DefineFlag("GPS", ""), "env:b", "")
                   ELSE Sec("-DX_b " \o DefineFlag("SCREEN", ""), "", "")]
         ELSE IF f = mainIni
           THEN [n \in {"env:b"} |-> Sec("-DM_b " \o DefineFlag("MQTT", ""), "", "")]
         ELSE [n \in {"env:b"} |-> Sec("-DY_b " \o DefineFlag("PKI", ""), "", "")]]

EnvRefInputs ==
  {[tree |-> EnvRefTree(x, r, y), envName |-> "a", mainFirst |-> TRUE] :
     x \in BOOLEAN, r \in BOOLEAN, y \in BOOLEAN}

Inputs ==
  TopoInputs \cup FlagInputs \cup BothInputs \cup RootBaseInputs \cup EnvRefInputs

\* arguments of a direct extractExclusionFlags call
ExclusionSymbols == {"WIFI", "GPS", "I2C", "POWER_FSM"}
ValueSuffixes == {"", "=1", "=0", "=2", "=10", "=true"}
FlagTokens ==
  {DefineFlag(x, v) : x \in ExclusionSymbols, v \in ValueSuffixes}
    \cup {"-Isrc", "-D " \o ExcludePrefix \o "GPS"}
MaxFlags == 2

RECURSIVE SeqsUpTo(_, _)
SeqsUpTo(set, n) ==
  IF n = 0 THEN {<<>>}
  ELSE LET shorter == SeqsUpTo(set, n - 1)
       IN  shorter \cup {Append(q, x) : q \in shorter, x \in set}

\* the server has started: no job, no limiter entry; the cache may be empty
NoJobs == [i \in {} |-> i]

JobsIdle ==
  /\ jobs = NoJobs
  /\ cacheDir = NoJobs
  /\ limiterQueue = <<>>
  /\ limiterRunning = {}
  /\ jobCount = 0

\* main.ts 97: let eventSource = null
NoEventSource == [none |-> TRUE]

\* main.ts 59-66, 95-97: the page before loadFirmwareData has answered
UiIdle ==
  /\ optionStates = NoJobs
  /\ showBuildStatus = FALSE
  /\ showProgress = FALSE
  /\ showDownload = FALSE
  /\ showError = FALSE
  /\ buildStatus = ""
  /\ eventSource = NoEventSource
  /\ inFlight = {}
  /\ submits = 0

\* no progress stream was requested
NoStream == [opened |-> FALSE]

SseIdle == stream = NoStream

\* no text was put together
NoShape == [kind |-> "none"]

\* parseEnvironmentsFromIni was not called
NotListed == [listed |-> FALSE]
\* it returned `names`
Listed(names) == [listed |-> TRUE, names |-> names]

ParseIdle ==
  /\ environments = NotListed
  /\ iniText = ""
  /\ shape = NoShape
  /\ iniSections = NoSections
  /\ iniBefore = NoSections
  /\ ppc = "idle"

ExtractIdle == buildFlags = <<>> /\ exclusions = <<>> /\ xpc = "idle"

ResolverIdle ==
  /\ firmwareDirExists = FALSE
  /\ tree = NoSections
  /\ iniFiles = <<>>
  /\ envName = ""
  /\ pc = "idle"
  /\ stack = <<>>
  /\ visited = {}
  /\ allFlags = <<>>
  /\ exclusionFlags = <<>>
  /\ result = Pending
  /\ caught = FALSE
  /\ firstResult = NotCalled

Init ==
  /\ \/ \E in \in Inputs :
          /\ firmwareDirExists = TRUE
          /\ tree = in.tree
          /\ iniFiles = IF in.mainFirst THEN WalkOrder(in.tree)
                        ELSE <<variantIni, mainIni>>
          /\ envName = in.envName
     \/ /\ firmwareDirExists = FALSE
        /\ tree = NoSections
        /\ iniFiles = <<>>
        /\ envName \in {"a", "zz"}
  /\ pc = "start"
  /\ stack = <<>>
  /\ visited = {}
  /\ allFlags = <<>>
  /\ exclusionFlags = <<>>
  /\ result = Pending
  /\ caught = FALSE
  /\ firstResult = NotCalled
  /\ ExtractIdle
  /\ ParseIdle
  /\ JobsIdle
  /\ UiIdle
  /\ SseIdle

Next ==
  \/ FirmwareDirMissing
  \/ EnvironmentNotFound
  \/ StartResolve
  \/ CallCircular
  \/ CallMissing
  \/ CallEnter
  \/ Return
  \/ ReturnAllFlags
  \/ ExtractExclusions
  \/ MapExclusions
  \/ MapCaught
  \/ CallAgain

Spec == Init /\ [][Next]_vars

(***************************************************************************)
(* The worker's flag generation (worker/build.sh 96-170): one define flag  *)
(* per config key that is set, in the order of the script.                 *)
(***************************************************************************)
WorkerTable ==
  << <<"disableNtp", "-DDISABLE_NTP">>,
     <<"disableWelcomeUnset", "-DDISABLE_WELCOME_UNSET">>,
     <<"minimizeBuild", "-DMESHTASTIC_MINIMIZE_BUILD=1">>,
     <<"excludeWifi", "-DMESHTASTIC_EXCLUDE_WIFI">>,
     <<"excludeBluetooth", "-DMESHTASTIC_EXCLUDE_BLUETOOTH">>,
     <<"excludeGps", "-DMESHTASTIC_EXCLUDE_GPS">>,
     <<"excludeScreen", "-DMESHTASTIC_EXCLUDE_SCREEN">>,
     <<"excludeMqtt", "-DMESHTASTIC_EXCLUDE_MQTT">>,
     <<"excludePowermon", "-DMESHTASTIC_EXCLUDE_POWERMON">>,
     <<"excludeI2c", "-DMESHTASTIC_EXCLUDE_I2C">>,
     <<"excludePki", "-DMESHTASTIC_EXCLUDE_PKI">>,
     <<"excludePowerFsm", "-DMESHTASTIC_EXCLUDE_POWER_FSM">>,
     <<"excludeTz", "-DMESHTASTIC_EXCLUDE_TZ">>,
     <<"excludeModules", "-DMESHTASTIC_EXCLUDE_MODULES">>,
     <<"excludeAudio", "-DMESHTASTIC_EXCLUDE_AUDIO">>,
     <<"excludeDetectionSensor", "-DMESHTASTIC_EXCLUDE_DETECTIONSENSOR">>,
     <<"excludeEnvironmentalSensor", "-DMESHTASTIC_EXCLUDE_ENVIRONMENTAL_SENSOR">>,
     <<"excludeHealthTelemetry", "-DMESHTASTIC_EXCLUDE_HEALTH_TELEMETRY">>,
     <<"excludeExternalNotification", "-DMESHTASTIC_EXCLUDE_EXTERNALNOTIFICATION">>,
     <<"excludePaxcounter", "-DMESHTASTIC_EXCLUDE_PAXCOUNTER">>,
     <<"excludePowerTelemetry", "-DMESHTASTIC_EXCLUDE_POWER_TELEMETRY">>,
     <<"excludeRangetest", "-DMESHTASTIC_EXCLUDE_RANGETEST">>,
     <<"excludeRemoteHardware", "-DMESHTASTIC_EXCLUDE_REMOTEHARDWARE">>,
     <<"excludeStoreforward", "-DMESHTASTIC_EXCLUDE_STOREFORWARD">>,
     <<"excludeTextmessage", "-DMESHTASTIC_EXCLUDE_TEXTMESSAGE">>,
     <<"excludeAtak", "-DMESHTASTIC_EXCLUDE_ATAK">>,
     <<"excludeCannedmessages", "-DMESHTASTIC_EXCLUDE_CANNEDMESSAGES">>,
     <<"excludeNeighborinfo", "-DMESHTASTIC_EXCLUDE_NEIGHBORINFO">>,
     <<"excludeTraceroute", "-DMESHTASTIC_EXCLUDE_TRACEROUTE">>,
     <<"excludeWaypoint", "-DMESHTASTIC_EXCLUDE_WAYPOINT">>,
     <<"excludeInputbroker", "-DMESHTASTIC_EXCLUDE_INPUTBROKER">>,
     <<"excludeSerial", "-DMESHTASTIC_EXCLUDE_SERIAL">>,
     <<"excludePowerStress", "-DMESHTASTIC_EXCLUDE_POWERSTRESS">>,
     <<"excludeAdmin", "-DMESHTASTIC_EXCLUDE_ADMIN">> >>

WorkerKeys == {row[1] : row \in Range(WorkerTable)}

\* the flag the script appends for a key
WorkerFlag(key) == (CHOOSE row \in Range(WorkerTable) : row[1] = key)[2]

RECURSIVE WorkerFlagsFrom(_, _)
WorkerFlagsFrom(rows, config) ==
  IF rows = <<>> THEN <<>>
  ELSE (IF Head(rows)[1] \in config THEN <<Head(rows)[2]>> ELSE <<>>)
         \o WorkerFlagsFrom(Tail(rows), config)

\* the list `flags` for a config given as the set of its keys that are true
WorkerFlags(config) == WorkerFlagsFrom(WorkerTable, config)

MaxOptions == 2

RECURSIVE SubsetsUpTo(_, _)
SubsetsUpTo(set, n) ==
  IF n = 0 THEN {{}}
  ELSE LET smaller == SubsetsUpTo(set, n - 1)
       IN  smaller \cup {c \cup {x} : c \in smaller, x \in set}

\* the flag lists of the configs with at most MaxOptions keys set
WorkerFlagLists ==
  {WorkerFlags(config) : config \in SubsetsUpTo(WorkerKeys, MaxOptions)}

(***************************************************************************)
(* A direct call of extractExclusionFlags on a bounded flag list.          *)
(***************************************************************************)
InitExtract ==
  /\ ResolverIdle
  /\ ParseIdle
  /\ JobsIdle
  /\ UiIdle
  /\ SseIdle
  /\ buildFlags \in SeqsUpTo(FlagTokens, MaxFlags) \cup WorkerFlagLists
  /\ exclusions = <<>>
  /\ xpc = "call"

ExtractCall ==
  /\ xpc = "call"
  /\ exclusions' = extractExclusionFlags(buildFlags)
  /\ xpc' = "returned"
  /\ UNCHANGED <<buildFlags, resolverVars, parseVars, jobVars, restVars>>

NextExtract == ExtractCall

SpecExtract == InitExtract /\ [][NextExtract]_vars

(***************************************************************************)
(* parseIniFile called on the text of a file, which is then edited by one  *)
(* inserted line and parsed again.                                         *)
(***************************************************************************)
\* content.join('\n') of the lines written to the file
RECURSIVE JoinLines(_)
JoinLines(lines) ==
  IF lines = <<>> THEN ""
  ELSE IF Len(lines) = 1 THEN Head(lines)
  ELSE Head(lines) \o "\n" \o JoinLines(Tail(lines))

HeaderLine(name) == "[" \o name \o "]"

\* a header line and one key=value line
PairShapes ==
  {[kind |-> "pair", name |-> n, lead |-> l, key |-> k, sp1 |-> a, sp2 |-> b,
    value |-> v, trail |-> t] :
     n \in {"env:a", "common"},
     l \in {"", "  "},
     k \in {"build_flags", "extends"},
     a \in {"", " "},
     b \in {"", " "},
     v \in {"", "-DA", "-DA=1 -DB", "a = b", "=x"},
     t \in {"", " \t", "\r"}}

KeyLine(sh) == sh.lead \o sh.key \o sh.sp1 \o "=" \o sh.sp2 \o sh.value \o sh.trail

\* the lines that may follow a key line: indented continuation lines, and
\* blank and comment lines
ContItems ==
  {[cont |-> TRUE, line |-> i \o t \o e, text |-> t] :
     i \in {" ", "\t"}, t \in {"-DB", "-DC=1"}, e \in {""}}
    \cup {[cont |-> TRUE, line |-> "    -DE -DF \r", text |-> "-DE -DF"]}
    \cup {[cont |-> FALSE, line |-> l, text |-> ""] : l \in {"", "; note", "  # note"}}
MaxCont == 3

\* a header line, a key line and up to MaxCont following lines
ContShapes ==
  {[kind |-> "cont", name |-> "env:a", key |-> "build_flags", value |-> v,
    tail |-> t] :
     v \in {"", "-DA"}, t \in SeqsUpTo(ContItems, MaxCont)}

ContLines(sh) ==
  <<HeaderLine(sh.name), sh.key \o " = " \o sh.value>>
    \o [i \in 1..Len(sh.tail) |-> sh.tail[i].line]

\* a header line and up to MaxBody further lines of any kind
BodyLines ==
  {"build_flags = -DA", "extends = common", "  -DB", "", "; note", "[common]"}
MaxBody == 3

BodyShapes ==
  {[kind |-> "body", lines |-> <<HeaderLine("env:a")>> \o b] :
     b \in SeqsUpTo(BodyLines, MaxBody)}

\* an environment header line with text around the brackets, and a key line
HeaderShapes ==
  {[kind |-> "header", name |-> n, lead |-> l, trail |-> t] :
     n \in {"env:a", "env:b c", "env"},
     l \in {"", " "},
     t \in {"", " ", "\r", " ; esp32"}}

TextOf(sh) ==
  IF sh.kind = "header"
    THEN JoinLines(<<sh.lead \o HeaderLine(sh.name) \o sh.trail,
                     "build_flags = -DA">>)
  ELSE IF sh.kind = "pair" THEN JoinLines(<<HeaderLine(sh.name), KeyLine(sh)>>)
  ELSE IF sh.kind = "cont" THEN JoinLines(ContLines(sh))
  ELSE JoinLines(sh.lines)

\* the positions /^/m matches at: the start of the text and after a line
\* terminator
LineStart(text, i) == i = 1 \/ Ch(text, i - 1) \in {"\n", "\r"}

\* /^\[env:([^\]]+)\]/ tried at position i: the length of the name, 0 for
\* no match
EnvHeaderAt(text, i) ==
  IF ~(LineStart(text, i) /\ StartsWithAt(text, "[env:", i)) THEN 0
  ELSE LET k == i + Len("[env:")
           others == {Ch(text, j) : j \in 1..Len(text)} \ {"]"}
           n == RunLen(text, k, others)
       IN  IF n > 0 /\ k + n <= Len(text) /\ Ch(text, k + n) = "]" THEN n ELSE 0

RECURSIVE EnvMatchesFrom(_, _)
\* the while loop over envRegex.exec, lastIndex = i - 1
EnvMatchesFrom(text, i) ==
  IF i > Len(text) THEN <<>>
  ELSE LET n == EnvHeaderAt(text, i)
           k == i + Len("[env:")
       IN  IF n = 0 THEN EnvMatchesFrom(text, i + 1)
           ELSE <<SubSeq(text, k, k + n - 1)>> \o EnvMatchesFrom(text, k + n + 1)

\* lines 161-172, for a file that can be read
parseEnvironmentsFromIni(text) == EnvMatchesFrom(text, 1)

\* readFileSync threw (line 224)
Unreadable == "<unreadable>"

\* lines inserted by an edit: comment lines and a key-less line
InsertedLines == {"; comment", "# comment", "keyless line"}

InsertLine(text, at, line) ==
  LET lines == SplitLines(text)
  IN  JoinLines(SubSeq(lines, 1, at) \o <<line>> \o SubSeq(lines, at + 1, Len(lines)))

InitParse ==
  /\ ResolverIdle
  /\ ExtractIdle
  /\ JobsIdle
  /\ UiIdle
  /\ SseIdle
  /\ \/ \E sh \in PairShapes \cup ContShapes \cup BodyShapes \cup HeaderShapes :
          shape = sh /\ iniText = TextOf(sh)
     \/ shape = NoShape /\ iniText = Unreadable
  /\ environments = NotListed
  /\ iniSections = NoSections
  /\ iniBefore = NoSections
  /\ ppc = "call"

\* lines 221-303
ParseFile ==
  /\ ppc \in {"call", "edited"}
  /\ iniSections' = IF iniText = Unreadable THEN NoSections
                     ELSE parseIniText(iniText)
  /\ ppc' = IF ppc = "call" THEN "parsed" ELSE "reparsed"
  /\ UNCHANGED <<iniText, shape, iniBefore, environments, resolverVars,
                 extractVars, jobVars, restVars>>

\* lines 161-177, called on the file before it is parsed
ListEnvironments ==
  /\ ppc = "call"
  /\ environments = NotListed
  /\ environments' = Listed(IF iniText = Unreadable THEN <<>>
                             ELSE parseEnvironmentsFromIni(iniText))
  /\ UNCHANGED <<iniText, shape, iniSections, iniBefore, ppc, resolverVars,
                 extractVars, jobVars, restVars>>

\* one line is inserted after line `at` of the file, inside a section
EditFile ==
  /\ ppc = "parsed"
  /\ iniText # Unreadable
  /\ \E at \in 1..Len(SplitLines(iniText)), line \in InsertedLines :
       /\ iniText' = InsertLine(iniText, at, line)
       /\ shape' = [kind |-> "edit", at |-> at, line |-> line, of |-> shape]
  /\ iniBefore' = iniSections
  /\ ppc' = "edited"
  /\ UNCHANGED <<iniSections, environments, resolverVars, extractVars, jobVars,
                 restVars>>

NextParse == ParseFile \/ EditFile \/ ListEnvironments

SpecParse == InitParse /\ [][NextParse]_vars

(***************************************************************************)
(* The build cache (cache.ts) and the job manager (jobs.ts).  A build      *)
(* configuration is a function from property names to tagged JSON values.  *)
(***************************************************************************)
Str(x) == [t |-> "str", v |-> x]
Bool(b) == [t |-> "bool", v |-> b]
Obj(f) == [t |-> "obj", v |-> f]
Arr(q) == [t |-> "arr", v |-> q]

\* the UTF-16 code units of property names, in ascending order
CodeUnits == "-0123456789" \o UpperChars \o "_" \o LowerChars

\* a < b in the default order of Array.prototype.sort
RECURSIVE StrLess(_, _)
StrLess(a, b) ==
  IF b = "" THEN FALSE
  ELSE IF a = "" THEN TRUE
  ELSE LET x == IndexOf(CodeUnits, Ch(a, 1))
           y == IndexOf(CodeUnits, Ch(b, 1))
       IN  IF x # y THEN x < y
           ELSE StrLess(SubSeq(a, 2, Len(a)), SubSeq(b, 2, Len(b)))

\* Object.keys(config).sort()
RECURSIVE SortKeys(_)
SortKeys(keys) ==
  IF keys = {} THEN <<>>
  ELSE LET k == CHOOSE x \in keys : \A y \in keys \ {x} : StrLess(x, y)
       IN  <<k>> \o SortKeys(keys \ {k})

RECURSIVE JoinComma(_)
JoinComma(parts) ==
  IF parts = <<>> THEN ""
  ELSE IF Len(parts) = 1 THEN Head(parts)
  ELSE Head(parts) \o "," \o JoinComma(Tail(parts))

Quoted(x) == "\"" \o x \o "\""

\* JSON.stringify(value, allow) with an array replacer: of every object, at
\* every depth, only the properties named in the array are written, in the
\* order of the array; array elements are all written
RECURSIVE Stringify(_, _)
RECURSIVE Members(_, _, _)
RECURSIVE Elements(_, _)
Members(f, names, allow) ==
  IF names = <<>> THEN <<>>
  ELSE (IF Head(names) \in DOMAIN f
          THEN <<Quoted(Head(names)) \o ":" \o Stringify(f[Head(names)], allow)>>
          ELSE <<>>) \o Members(f, Tail(names), allow)
Elements(q, allow) ==
  IF q = <<>> THEN <<>>
  ELSE <<Stringify(Head(q), allow)>> \o Elements(Tail(q), allow)
Stringify(value, allow) ==
  IF value.t = "str" THEN Quoted(value.v)
  ELSE IF value.t = "bool" THEN (IF value.v THEN "true" ELSE "false")
  ELSE IF value.t = "arr" THEN "[" \o JoinComma(Elements(value.v, allow)) \o "]"
  ELSE "{" \o JoinComma(Members(value.v, allow, allow)) \o "}"

\* cache.ts line 10: the text that is hashed
sortedConfig(config) == Stringify(Obj(config), SortKeys(DOMAIN config))

\* createHash('sha256').update(text).digest('hex'), taken as free of
\* collisions: equal digests exactly for equal texts
Sha256Hex(text) == "sha256:" \o text

getCacheKey(config) == Sha256Hex(sortedConfig(config))

CACHE_DIR == ".buildcache"
getCachePath(cacheKey) == Join(CACHE_DIR, cacheKey)

EndsWith(x, suffix) == StartsWithAt(x, suffix, Len(x) - Len(suffix) + 1)

\* cache.ts 24-36
isCached(cacheKey) ==
  /\ cacheKey \in DOMAIN cacheDir
  /\ \E file \in cacheDir[cacheKey].files :
       EndsWith(file, ".bin") \/ EndsWith(file, ".elf")

MAX_CONCURRENT_BUILDS == 2

\* the limiter starting every scheduled job at once
SlotFreeAlways == TRUE

\* Bottleneck({maxConcurrent}): a scheduled job starts while fewer than
\* maxConcurrent are running
SlotFree == Cardinality(limiterRunning) < MAX_CONCURRENT_BUILDS

\* the build configurations requested
BuildConfigs ==
  {[branch |-> Str("develop")],
   [branch |-> Str("master")],
   [branch |-> Str("develop"), config |-> Obj([k \in {} |-> TRUE])],
   [branch |-> Str("develop"), config |-> Obj([excludeWifi |-> Bool(TRUE)])],
   [branch |-> Str("develop"), environment |-> Str("tbeam"),
    buildFlags |-> Arr(<<Str("-DA")>>)],
   [branch |-> Str("develop"), features |-> Obj([wifi |-> Bool(FALSE)])]}

\* bound on the number of createJob calls
MaxJobs == 3

\* the files a successful build leaves in its output directory
FirmwareFiles == {"firmware.bin", "firmware.elf"}

JobId(n) == "build-" \o ToString(n)

\* jobs.ts 27-64
CreateJob ==
  /\ jobCount < MaxJobs
  /\ \E config \in BuildConfigs :
       LET cacheKey == getCacheKey(config)
           id == JobId(jobCount + 1)
       IN  IF isCached(cacheKey)
             THEN /\ jobs' = Put(jobs, id,
                                 [id |-> id, config |-> config,
                                  status |-> "completed",
                                  progress |-> <<"Build found in cache">>,
                                  cacheKey |-> cacheKey,
                                  outputPath |-> getCachePath(cacheKey)])
                  /\ UNCHANGED limiterQueue
             ELSE /\ jobs' = Put(jobs, id,
                                 [id |-> id, config |-> config,
                                  status |-> "queued",
                                  progress |-> <<"Job queued">>,
                                  cacheKey |-> cacheKey,
                                  outputPath |-> Undefined])
                  /\ limiterQueue' = Append(limiterQueue, id)
  /\ jobCount' = jobCount + 1
  /\ UNCHANGED <<cacheDir, limiterRunning, resolverVars, extractVars, parseVars,
               restVars>>

\* jobs.ts 66-92: the limiter starts executeBuild, which runs up to the
\* await on the Docker process
ExecuteBuild ==
  /\ limiterQueue # <<>>
  /\ SlotFree
  /\ LET id == Head(limiterQueue)
     IN  /\ jobs' = [jobs EXCEPT ![id].status = "building",
                                 ![id].progress = Append(@, "Starting Docker build...")]
         /\ limiterRunning' = limiterRunning \cup {id}
  /\ limiterQueue' = Tail(limiterQueue)
  /\ UNCHANGED <<cacheDir, jobCount, resolverVars, extractVars, parseVars,
               restVars>>

\* a build that closed with an error code is queued again
DockerCloseRequeues ==
  /\ \E id \in limiterRunning, code \in {0, 1} :
       /\ IF code = 0
            THEN /\ cacheDir' = Put(cacheDir, jobs[id].cacheKey,
                                    [files |-> FirmwareFiles,
                                     config |-> jobs[id].config])
                 /\ jobs' = [jobs EXCEPT
                               ![id].status = "completed",
                               ![id].outputPath = getCachePath(jobs[id].cacheKey),
                               ![id].progress = Append(@, "Build completed successfully")]
                 /\ UNCHANGED limiterQueue
            ELSE /\ UNCHANGED cacheDir
                 /\ jobs' = [jobs EXCEPT ![id].status = "queued"]
                 /\ limiterQueue' = Append(limiterQueue, id)
       /\ limiterRunning' = limiterRunning \ {id}
  /\ UNCHANGED <<jobCount, resolverVars, extractVars, parseVars, restVars>>

\* jobs.ts 119-159: the Docker process closes; with code 0 the output files
\* are copied to the cache directory of the job's key
DockerClose ==
  /\ \E id \in limiterRunning, code \in {0, 1} :
       /\ IF code = 0
            THEN /\ cacheDir' = Put(cacheDir, jobs[id].cacheKey,
                                    [files |-> FirmwareFiles,
                                     config |-> jobs[id].config])
                 /\ jobs' = [jobs EXCEPT
                               ![id].status = "completed",
                               ![id].outputPath = getCachePath(jobs[id].cacheKey),
                               ![id].progress = Append(@, "Build completed successfully")]
            ELSE /\ UNCHANGED cacheDir
                 /\ jobs' = [jobs EXCEPT
                               ![id].status = "failed",
                               ![id].progress = Append(@, "Build failed")]
       /\ limiterRunning' = limiterRunning \ {id}
  /\ UNCHANGED <<limiterQueue, jobCount, resolverVars, extractVars, parseVars,
               restVars>>

\* jobs.ts 128-130, 154-159: the Docker process emits `error` (it could not
\* be spawned)
DockerError ==
  /\ \E id \in limiterRunning :
       /\ jobs' = [jobs EXCEPT ![id].status = "failed",
                                ![id].progress = Append(@, "Build failed")]
       /\ limiterRunning' = limiterRunning \ {id}
  /\ UNCHANGED <<cacheDir, limiterQueue, jobCount, resolverVars, extractVars,
                 parseVars, restVars>>

InitJobs ==
  /\ ResolverIdle
  /\ ExtractIdle
  /\ ParseIdle
  /\ JobsIdle
  /\ UiIdle
  /\ SseIdle

NextJobs == CreateJob \/ ExecuteBuild \/ DockerClose \/ DockerError

SpecJobs == InitJobs /\ [][NextJobs]_vars

\* the job manager when every Docker process that was started exits or
\* errors
SpecJobsDockerEnds == SpecJobs /\ WF_vars(DockerClose \/ DockerError)

(***************************************************************************)
(* The SSE progress endpoint (api/src/index.ts 54-105): a stream whose     *)
(* timer polls the job manager while jobs are created and built.           *)
(***************************************************************************)
\* only a completed job ends the stream
TerminalStatusCompletedOnly(status) == status = "completed"

\* index.ts 88: job.status === 'completed' || job.status === 'failed'
TerminalStatus(status) == status \in {"completed", "failed"}

JobNotFound == [error |-> "Job not found"]

\* index.ts 77-82: the data of an event, by its status
ProgressData(job) == [status |-> job.status]

MaxPolls == 3
\* jobs created while the stream is watched
MaxStreamJobs == 2

\* index.ts 60-64: GET /api/build/<jobId>/progress starts the stream and its
\* interval timer; the id need not be that of a job
OpenStream ==
  /\ stream = NoStream
  /\ \E jobId \in {JobId(n) : n \in 1..MaxStreamJobs} :
       stream' = [opened |-> TRUE, jobId |-> jobId, polling |-> TRUE,
                  closed |-> FALSE, polls |-> 0, events |-> <<>>]
  /\ UNCHANGED <<resolverVars, extractVars, parseVars, jobVars, uiVars>>

\* index.ts 64-92: one run of the interval callback
Poll ==
  /\ stream # NoStream
  /\ stream.polling
  /\ stream.polls < MaxPolls
  /\ LET found == stream.jobId \in DOMAIN jobs
         data == IF found THEN ProgressData(jobs[stream.jobId]) ELSE JobNotFound
         ends == ~found \/ TerminalStatus(jobs[stream.jobId].status)
     IN  stream' = [stream EXCEPT
                      !.polls = @ + 1,
                      !.events = Append(@, data),
                      !.closed = @ \/ ends,
                      !.polling = ~ends]
  /\ UNCHANGED <<resolverVars, extractVars, parseVars, jobVars, uiVars>>

\* the job manager of a server on which at most MaxStreamJobs jobs are made
WatchedJobs ==
  \/ jobCount < MaxStreamJobs /\ CreateJob
  \/ ExecuteBuild
  \/ DockerClose
  \/ DockerError

NextSSE == WatchedJobs \/ OpenStream \/ Poll

SpecSSE == InitJobs /\ [][NextSSE]_vars

(***************************************************************************)
(* The web UI (web/src/main.ts) and the option list it loads               *)
(* (api/src/config-options.ts).                                            *)
(***************************************************************************)
Option(key, category, hierarchical, implies) ==
  [key |-> key, category |-> category, hierarchical |-> hierarchical,
   implies |-> implies]

\* config-options.ts 10-221
CONFIG_OPTIONS ==
  << Option("minimizeBuild", "system", TRUE,
            <<"excludeModules", "excludeWifi", "excludeBluetooth", "excludeGps",
              "excludeScreen", "excludeMqtt", "excludePowermon", "excludeI2c",
              "excludePki", "excludePowerFsm", "excludeTz">>),
     Option("disableNtp", "feature", FALSE, <<>>),
     Option("disableWelcomeUnset", "feature", FALSE, <<>>),
     Option("excludeWifi", "system", FALSE, <<>>),
     Option("excludeBluetooth", "system", FALSE, <<>>),
     Option("excludeGps", "system", FALSE, <<"excludeRangetest">>),
     Option("excludeScreen", "system", FALSE, <<>>),
     Option("excludeMqtt", "system", FALSE, <<>>),
     Option("excludePowermon", "system", FALSE, <<>>),
     Option("excludeI2c", "system", FALSE, <<>>),
     Option("excludePki", "system", FALSE, <<>>),
     Option("excludePowerFsm", "system", FALSE, <<>>),
     Option("excludeTz", "system", FALSE, <<>>),
     Option("excludeModules", "module", TRUE,
            <<"excludeAudio", "excludeDetectionSensor",
              "excludeEnvironmentalSensor", "excludeHealthTelemetry",
              "excludeExternalNotification", "excludePaxcounter",
              "excludePowerTelemetry", "excludeRangetest",
              "excludeRemoteHardware", "excludeStoreforward",
              "excludeTextmessage", "excludeAtak", "excludeCannedmessages",
              "excludeNeighborinfo", "excludeTraceroute", "excludeWaypoint",
              "excludeInputbroker", "excludeSerial", "excludePowerStress",
              "excludeAdmin">>),
     Option("excludeAudio", "module", FALSE, <<>>),
     Option("excludeDetectionSensor", "module", FALSE, <<>>),
     Option("excludeEnvironmentalSensor", "module", FALSE, <<>>),
     Option("excludeHealthTelemetry", "module", FALSE, <<>>),
     Option("excludeExternalNotification", "module", FALSE, <<>>),
     Option("excludePaxcounter", "module", FALSE, <<>>),
     Option("excludePowerTelemetry", "module", FALSE, <<>>),
     Option("excludeRangetest", "module", FALSE, <<>>),
     Option("excludeRemoteHardware", "module", FALSE, <<>>),
     Option("excludeStoreforward", "module", FALSE, <<>>),
     Option("excludeTextmessage", "module", FALSE, <<>>),
     Option("excludeAtak", "module", FALSE, <<>>),
     Option("excludeCannedmessages", "module", FALSE, <<>>),
     Option("excludeNeighborinfo", "module", FALSE, <<>>),
     Option("excludeTraceroute", "module", FALSE, <<>>),
     Option("excludeWaypoint", "module", FALSE, <<>>),
     Option("excludeInputbroker", "module", FALSE, <<>>),
     Option("excludeSerial", "module", FALSE, <<>>),
     Option("excludePowerStress", "module", FALSE, <<>>),
     Option("excludeAdmin", "module", FALSE, <<>>) >>

OptionKeys == {o.key : o \in Range(CONFIG_OPTIONS)}

OptionOf(key) == CHOOSE o \in Range(CONFIG_OPTIONS) : o.key = key

\* main.ts 469-471 and 589-592: the options drawn with the handler that
\* follows `implies`: hierarchical ones of category system or module
DrawnHierarchical(o) == o.hierarchical /\ o.category \in {"system", "module"}

\* main.ts 492-504 and 604-617: onchange of a hierarchical checkbox
ChangeHierarchical(states, o, checked) ==
  [k \in DOMAIN states |->
     IF k = o.key THEN checked
     ELSE IF checked /\ k \in Range(o.implies) THEN TRUE
     ELSE states[k]]

\* main.ts 640-644: onchange of a regular checkbox
ChangeRegular(states, o, checked) == [states EXCEPT ![o.key] = checked]

\* the checkboxes the user operates
ClickedOptions ==
  {"minimizeBuild", "excludeModules", "excludeGps", "excludeAudio", "disableNtp"}

\* main.ts 152-168: loadFirmwareData creates a state per option
LoadConfigOptions ==
  /\ optionStates = NoJobs
  /\ optionStates' = [k \in OptionKeys |-> FALSE]
  /\ UNCHANGED <<showBuildStatus, showProgress, showDownload, showError,
                 buildStatus, eventSource, inFlight, submits>>
  /\ UNCHANGED <<resolverVars, extractVars, parseVars, jobVars, sseVars>>

\* a click on a checkbox: it takes the opposite of the state it shows
ChangeOption ==
  /\ \E key \in ClickedOptions \cap DOMAIN optionStates :
       LET o == OptionOf(key)
           checked == ~optionStates[key]
       IN  optionStates' =
             IF DrawnHierarchical(o)
               THEN ChangeHierarchical(optionStates, o, checked)
               ELSE ChangeRegular(optionStates, o, checked)
  /\ UNCHANGED <<showBuildStatus, showProgress, showDownload, showError,
                 buildStatus, eventSource, inFlight, submits>>
  /\ UNCHANGED <<resolverVars, extractVars, parseVars, jobVars, sseVars>>

MaxSubmits == 2

\* main.ts 274-313: handleSubmit up to the await on fetch
HandleSubmit ==
  /\ submits < MaxSubmits
  /\ showBuildStatus' = TRUE
  /\ showProgress' = TRUE
  /\ showError' = FALSE
  /\ showDownload' = FALSE
  /\ buildStatus' = "queued"
  /\ inFlight' = inFlight \cup {submits + 1}
  /\ submits' = submits + 1
  /\ UNCHANGED <<optionStates, eventSource>>
  /\ UNCHANGED <<resolverVars, extractVars, parseVars, jobVars, sseVars>>

\* the BuildJob a successful POST /build answers with (jobs.ts 38-58)
JobAnswers ==
  {[id |-> JobId(n), status |-> "queued", outputPath |-> Undefined,
    cacheKey |-> "k"] : n \in 1..MaxSubmits}
    \cup {[id |-> JobId(n), status |-> "completed",
           outputPath |-> getCachePath("k"), cacheKey |-> "k"] :
            n \in 1..MaxSubmits}

\* main.ts 222-229: connectSSE closes the module's EventSource and opens one
\* for the job
connectSSE(jobId) == [jobId |-> jobId, readyState |-> "open"]

\* main.ts 315-331: the response is ok
BuildAnswered ==
  /\ \E r \in inFlight, job \in JobAnswers :
       /\ inFlight' = inFlight \ {r}
       /\ eventSource' = connectSSE(job.id)
       /\ IF job.status = "completed" /\ job.outputPath # Undefined
             /\ job.cacheKey # Undefined
            THEN /\ showDownload' = TRUE
                 /\ showProgress' = FALSE
                 /\ buildStatus' = "completed"
            ELSE UNCHANGED <<showDownload, showProgress, buildStatus>>
  /\ UNCHANGED <<optionStates, showBuildStatus, showError, submits>>
  /\ UNCHANGED <<resolverVars, extractVars, parseVars, jobVars, sseVars>>

\* main.ts 315-318, 332-338: the response is not ok or fetch rejects
BuildRefused ==
  /\ \E r \in inFlight : inFlight' = inFlight \ {r}
  /\ showError' = TRUE
  /\ showProgress' = FALSE
  /\ buildStatus' = "failed"
  /\ UNCHANGED <<optionStates, showBuildStatus, showDownload, eventSource, submits>>
  /\ UNCHANGED <<resolverVars, extractVars, parseVars, jobVars, sseVars>>

\* the data of the events a progress stream sends (index.ts 62-92)
SseData ==
  {[status |-> st,
    outputPath |-> IF st = "completed" THEN getCachePath("k") ELSE Undefined] :
      st \in {"queued", "building", "completed", "failed"}}
    \cup {[status |-> Undefined, outputPath |-> Undefined]}

Closed(es) == [es EXCEPT !.readyState = "closed"]

\* main.ts 231-263: onmessage of the module's EventSource
OnMessage ==
  /\ eventSource # NoEventSource
  /\ eventSource.readyState = "open"
  /\ \E data \in SseData :
       /\ buildStatus' = data.status
       /\ IF data.status = "completed" /\ data.outputPath # Undefined
            THEN IF ~EndsWith(data.outputPath, "/")
                   THEN /\ showDownload' = TRUE
                        /\ showProgress' = FALSE
                        /\ showError' = FALSE
                        /\ eventSource' = Closed(eventSource)
                   ELSE UNCHANGED <<showDownload, showProgress, showError,
                                    eventSource>>
          ELSE IF data.status = "failed"
            THEN /\ showError' = TRUE
                 /\ showProgress' = FALSE
                 /\ showDownload' = FALSE
                 /\ eventSource' = Closed(eventSource)
          ELSE IF data.status \in {"building", "queued"}
            THEN /\ showProgress' = TRUE
                 /\ showError' = FALSE
                 /\ showDownload' = FALSE
                 /\ UNCHANGED eventSource
          ELSE UNCHANGED <<showDownload, showProgress, showError, eventSource>>
  /\ UNCHANGED <<optionStates, showBuildStatus, inFlight, submits>>
  /\ UNCHANGED <<resolverVars, extractVars, parseVars, jobVars, sseVars>>

InitUI ==
  /\ ResolverIdle
  /\ ExtractIdle
  /\ ParseIdle
  /\ JobsIdle
  /\ UiIdle
  /\ SseIdle

NextUI ==
  \/ LoadConfigOptions
  \/ ChangeOption
  \/ HandleSubmit
  \/ BuildAnswered
  \/ BuildRefused
  \/ OnMessage

SpecUI == InitUI /\ [][NextUI]_vars

(***************************************************************************)
(* Properties.                                                             *)
(***************************************************************************)
\* the section of the environment being resolved, read from the file tree
OwnFile == findEnvironmentFile(envName)
OwnName == "env:" \o envName
OwnSection == tree[OwnFile][OwnName]
Resolved == pc = "done" /\ visited # {}
DefinedPairs == UNION {{<<f, n>> : n \in DOMAIN tree[f]} : f \in DOMAIN tree}
DefinedNowhere(name) == \A f \in DOMAIN tree : name \notin DOMAIN tree[f]
Tokens(p) == SplitWs(tree[p[1]][p[2]].build_flags)

\* the stack never reaches the bound, so the bound cuts no behaviour short
DepthBoundNotReached == Len(stack) < MaxDepth

\* every key resolveBuildFlags can be called with on this tree
KeyUniverse ==
  LET names == {tree[p[1]][p[2]].extends : p \in DefinedPairs} \cup {"env", OwnName}
  IN  {VisitKey(f, n) : f \in DOMAIN tree, n \in names}

RECURSIVE SumPending(_)
SumPending(frames) ==
  IF frames = <<>> THEN 0
  ELSE Len(Head(frames).pending) + SumPending(Tail(frames))

\* one activation makes at most CallsPerFrame calls, so entering a section
\* adds fewer than MeasureStep outstanding calls and records
CallsPerFrame == 2
MeasureStep == CallsPerFrame + 2

\* keys not yet visited, then calls and activation records outstanding
Measure ==
  Cardinality(KeyUniverse \ visited) * MeasureStep + SumPending(stack) + Len(stack)

\* while resolving there is a current activation, which either has a call
\* left to make or returns
ResolveCanStep == pc = "resolve" => stack # <<>>

\* C1: resolveBuildFlags terminates on every file tree, cyclic ones included:
\* every step of a resolution takes a natural-number measure strictly down
\* (so no resolution runs forever), a resolution always has a next step, and
\* the stack stays inside the bound of the model.
C1_Terminates ==
  /\ [][pc = "resolve" => (visited' \subseteq KeyUniverse /\ Measure' < Measure)]_vars
  /\ []ResolveCanStep
  /\ []DepthBoundNotReached

\* a cycle across the two platformio.ini files was resolved to the end
C1_Witness ==
  /\ Resolved
  /\ envName = "a"
  /\ OwnSection.extends = "env:c"
  /\ mainIni \in DOMAIN tree
  /\ "env:c" \in DOMAIN tree[mainIni]
  /\ tree[mainIni]["env:c"].extends = "env:a"
  /\ "-DM_c" \in Range(allFlags)

\* number of times the sections of the tree declare token t
Declared(t) ==
  Cardinality(UNION {LET toks == Tokens(p)
                     IN  {<<p, i>> : i \in {j \in 1..Len(toks) : toks[j] = t}} :
                       p \in DefinedPairs})

\* C2: within one top-level call every (file, section) pair contributes its
\* own build_flags tokens at most once: a token occurs in the returned list
\* no more often than the sections of the tree declare it.
C2_AtMostOnce ==
  pc \in {"extract", "map", "done"} =>
    \A t \in Range(allFlags) : Count(t, allFlags) <= Declared(t)

\* the root `env` section is reached through an explicit extends and through
\* the root-defaults pickup, and its marker flag is in the list once
C2_Witness ==
  /\ Resolved
  /\ OwnFile = variantIni
  /\ OwnSection.extends = "env"
  /\ Count("-DM_a", allFlags) = 1

\* symbols whose exclusion a section declares directly: by a define among
\* its build_flags tokens, or by its build_src_filter
DirectSymbols(file, name) ==
  Range(extractExclusionFlags(SplitWs(tree[file][name].build_flags)))
    \cup Range(checkSrcFilterExclusions(file, name))
KeysOf(symbols) ==
  {mapExclusionToConfigKey(x) : x \in {y \in symbols : ~MapThrows(y)}} \ {Null}
OwnKeys == KeysOf(DirectSymbols(OwnFile, OwnName))

\* sections reachable from a set of targets along the extends chain
RECURSIVE ReachFrom(_, _)
ReachFrom(frontier, seen) ==
  IF frontier = {} THEN seen
  ELSE LET t == CHOOSE x \in frontier : TRUE
           sections == parseIniFile(t.filePath)
           succ == IF t.sectionName \in DOMAIN sections
                     THEN Range(ExtendsTargets(sections[t.sectionName], t.filePath))
                     ELSE {}
           seen2 == seen \cup {t}
       IN  ReachFrom((frontier \cup succ) \ seen2, seen2)

\* the root-defaults pickup applies to the environment's own section
PickupApplies ==
  /\ OwnFile # mainIni
  /\ ~StartsWith(OwnSection.extends, "env:")
  /\ mainIni \in DOMAIN tree
  /\ "env" \in DOMAIN tree[mainIni]

RootEnvKeys ==
  IF ~PickupApplies THEN {}
  ELSE UNION {KeysOf(DirectSymbols(t.filePath, t.sectionName)) :
                t \in {u \in ReachFrom({Target("env", mainIni)}, {}) :
                         u.sectionName \in DOMAIN parseIniFile(u.filePath)}}

DanglingExtends ==
  /\ Resolved
  /\ OwnSection.extends # ""
  /\ DefinedNowhere(OwnSection.extends)

\* C4 as stated: an environment whose extends names a section defined in no
\* file resolves without error to only the exclusions of its own section.
C4_OnlyOwnExclusions ==
  DanglingExtends =>
    /\ Range(result.hardExclusions) \subseteq OwnKeys
    /\ DOMAIN result.config \subseteq OwnKeys

\* C4 amended: the result holds only exclusions of the environment's own
\* section and of the sections resolved from the root file's `env` section,
\* which a bare extends in a non-root file always picks up.
C4_OwnOrRootEnvExclusions ==
  DanglingExtends =>
    /\ Range(result.hardExclusions) \subseteq OwnKeys \cup RootEnvKeys
    /\ DOMAIN result.config \subseteq OwnKeys \cup RootEnvKeys

\* a dangling bare extends in the variant file: the own exclusion and the
\* one of the root `env` section are both returned
C4_Witness ==
  /\ DanglingExtends
  /\ OwnSection.extends = "missing_base"
  /\ "excludeGps" \in OwnKeys
  /\ "excludePki" \notin OwnKeys
  /\ Range(result.hardExclusions) = {"excludeGps", "excludePki"}

\* no platformio.ini of the tree defines [env:<envName>]
EnvUndefined ==
  \A f \in DOMAIN tree :
    StartsWithAt(f, "/platformio.ini", Len(f) - 14) => OwnName \notin DOMAIN tree[f]

\* C5: for a name that no platformio.ini defines, or without a firmware
\* directory, the result is exactly {config: {}, hardExclusions: []}.
C5_UnknownEnvironmentEmpty ==
  (pc = "done" /\ (~firmwareDirExists \/ EnvUndefined)) =>
    /\ DOMAIN result.config = {}
    /\ result.hardExclusions = <<>>
    /\ ~caught

\* an unknown name was looked up in a tree that defines other environments
C5_Witness ==
  /\ pc = "done"
  /\ firmwareDirExists
  /\ EnvUndefined
  /\ \E f \in DOMAIN tree : "env:a" \in DOMAIN tree[f]
  /\ result.hardExclusions = <<>>

(***************************************************************************)
(* Properties of the exclusion vocabulary.                                 *)
(***************************************************************************)
ConfigKeys == {mapping[k] : k \in DOMAIN mapping}
Mapped(x) == ~MapThrows(x) /\ mapExclusionToConfigKey(x) \in ConfigKeys
MappedSymbols ==
  {x \in {"GPS", "MQTT", "WIFI", "WEBSERVER", "BLUETOOTH", "SCREEN", "PKI", "TZ",
          "AUDIO", "SERIAL"} : Mapped(x)}

\* the tokens carry a define that enables the exclusion of symbol x
Enables(tokens, x) ==
  DefineFlag(x, "") \in Range(tokens) \/ DefineFlag(x, "=1") \in Range(tokens)

InResult(key) ==
  /\ key \in Range(result.hardExclusions)
  /\ key \in DOMAIN result.config
  /\ result.config[key] = TRUE

\* the environment's section extends a bare section of its own file
ExtendsBareInSameFile ==
  /\ Resolved
  /\ OwnSection.extends # ""
  /\ ~StartsWith(OwnSection.extends, "env:")
  /\ OwnSection.extends \in DOMAIN tree[OwnFile]

\* C3: an environment whose own section carries an exclusion define for A
\* and extends a bare section of the same file carrying one for B (both
\* mapped) gets the config keys of A and B in hardExclusions and in config.
C3_OwnAndBaseExclusions ==
  ExtendsBareInSameFile =>
    \A a \in MappedSymbols, b \in MappedSymbols :
      (/\ Enables(SplitWs(OwnSection.build_flags), a)
       /\ Enables(SplitWs(tree[OwnFile][OwnSection.extends].build_flags), b))
        => /\ InResult(mapExclusionToConfigKey(a))
           /\ InResult(mapExclusionToConfigKey(b))

\* C6: extractExclusionFlags adds X for -DMESHTASTIC_EXCLUDE_X and for
\* -DMESHTASTIC_EXCLUDE_X=1, and nothing for -DMESHTASTIC_EXCLUDE_X=0, for
\* every exclusion symbol X.
C6_ExtractByValue ==
  xpc = "returned" =>
    \A x \in ExclusionSymbols :
      /\ Enables(buildFlags, x) => x \in Range(exclusions)
      /\ buildFlags = <<DefineFlag(x, "=0")>> => exclusions = <<>>

\* C7: a define with an explicit value other than 1 never adds its symbol;
\* a symbol is added only by a define without value or with value exactly 1.
C7_OnlyNoValueOrOne ==
  xpc = "returned" =>
    \A x \in ExclusionSymbols :
      /\ \A v \in ValueSuffixes \ {"", "=1"} :
           buildFlags = <<DefineFlag(x, v)>> => x \notin Range(exclusions)
      /\ x \in Range(exclusions) =>
           \/ Enables(buildFlags, x)
           \/ (DefineSwitch \o " " \o ExcludePrefix \o x) \in Range(buildFlags)

\* the define of symbol x is written in the build_flags value in this form
WrittenIn(value, form, x) ==
  \E i \in 1..Len(SplitWs(value)) :
    LET parts == SplitWs(value)
    IN  \/ form = "nospace" /\ parts[i] = DefineFlag(x, "")
        \/ /\ form = "space"
           /\ parts[i] = DefineSwitch
           /\ i < Len(parts)
           /\ parts[i + 1] = ExcludePrefix \o x

\* C8: an exclusion define in a section's build_flags is recognized without
\* and with a space between the define switch and the symbol: in both forms
\* the symbol's key is in the result (stated for runs in which no exception
\* was caught, for the environment's own section).
C8_DefineWithOrWithoutSpace ==
  (Resolved /\ ~caught) =>
    \A x \in MappedSymbols, form \in {"nospace", "space"} :
      WrittenIn(OwnSection.build_flags, form, x)
        => InResult(mapExclusionToConfigKey(x))

\* C9: unknown exclusion symbols are dropped without error: mapping a
\* captured symbol never raises, and the keys of all mapped symbols of the
\* exclusion set are in the result.
C9_UnknownSymbolsDropped ==
  Resolved =>
    /\ ~caught
    /\ \A x \in Range(exclusionFlags) :
         Mapped(x) => InResult(mapExclusionToConfigKey(x))

\* C10: a build_src_filter of the environment's own section that contains
\* -<mesh/wifi/> puts the wifi key in the result, and one that contains
\* -<nimble/> or -<mesh/ble/> the bluetooth key, whatever the flag list.
C10_SrcFilterExclusions ==
  Resolved =>
    /\ Includes(OwnSection.build_src_filter, "-<mesh/wifi/>")
         => InResult("excludeWifi")
    /\ (\/ Includes(OwnSection.build_src_filter, "-<nimble/>")
        \/ Includes(OwnSection.build_src_filter, "-<mesh/ble/>"))
         => InResult("excludeBluetooth")

(***************************************************************************)
(* Properties of the resolved flag list.                                   *)
(***************************************************************************)
NoSubstitution(flags) ==
  \A j \in 1..Len(flags) : ~StartsWith(flags[j], "${")

\* C11: no token that begins with ${ is in a list returned by
\* resolveBuildFlags, for any section at any depth of the chain: neither in
\* the list of any activation nor in the list the top-level call returns.
C11_NoSubstitutionTokens ==
  /\ \A i \in 1..Len(stack) : NoSubstitution(stack[i].flags)
  /\ NoSubstitution(allFlags)

\* the environment's section and the base section it extends both carry
\* substitution tokens, and the base section's define was resolved
C11_Witness ==
  /\ Resolved
  /\ OwnSection.extends = "common"
  /\ Includes(OwnSection.build_flags, "${")
  /\ Includes(tree[OwnFile]["common"].build_flags, "${")
  /\ DefineFlag("MQTT", "") \in Range(allFlags)
  /\ "-Isrc" \in Range(allFlags)

\* C15: calling getEnvironmentConfigDefaults twice with the same name on an
\* unchanged file tree returns identical config and hardExclusions: nothing
\* of the first call, the visited set included, reaches the second.
C15_SecondCallIdentical ==
  (pc = "done" /\ firstResult # NotCalled) =>
    /\ result.config = firstResult.config
    /\ result.hardExclusions = firstResult.hardExclusions

\* the second call returned exclusions of the environment's own section and
\* of a section it inherits from
C15_Witness ==
  /\ Resolved
  /\ firstResult # NotCalled
  /\ OwnSection.extends = "common"
  /\ Range(result.hardExclusions) = {"excludeGps", "excludeMqtt", "excludePki"}
  /\ Cardinality(visited) = 3

\* the tokens a section contributes itself
OwnTokens(section) ==
  LET parts == SplitWs(section.build_flags)
  IN  SelectSeq(parts, LAMBDA f : f # "" /\ ~StartsWith(f, "${"))

NoTarget == [none |-> TRUE]

\* the section an extends value names, by the search order of the resolver
ExplicitTarget(extendsValue, filePath) ==
  LET here == parseIniFile(filePath)
  IN  IF extendsValue \in DOMAIN here THEN Target(extendsValue, filePath)
      ELSE IF StartsWith(extendsValue, "env:")
        THEN LET envFile == findEnvironmentFile(ReplaceFirst(extendsValue, "env:", ""))
             IN  IF envFile # Null THEN Target(extendsValue, envFile) ELSE NoTarget
      ELSE LET archFile == IF Includes(extendsValue, "_base")
                             THEN findArchBaseFile(ReplaceFirst(extendsValue, "_base", ""))
                             ELSE Null
           IN  IF archFile # Null THEN Target(extendsValue, archFile)
               ELSE IF /\ existsSync(mainIni)
                       /\ filePath # mainIni
                       /\ extendsValue \in DOMAIN parseIniFile(mainIni)
                 THEN Target(extendsValue, mainIni)
               ELSE NoTarget

\* the root-defaults pickup applies to a section with this extends value
PickupFor(extendsValue, filePath) ==
  /\ extendsValue # ""
  /\ ~StartsWith(extendsValue, "env:")
  /\ filePath # mainIni
  /\ existsSync(mainIni)
  /\ "env" \in DOMAIN parseIniFile(mainIni)

\* the list for a section as a function of the tree: own tokens, then the
\* list of the explicit extends target, then the list of the root `env`
\* section; a pair met before contributes nothing
RECURSIVE ResolveRef(_, _, _)
ResolveRef(sectionName, filePath, seen) ==
  LET key == VisitKey(filePath, sectionName)
      here == parseIniFile(filePath)
  IN  IF key \in seen THEN [flags |-> <<>>, seen |-> seen]
      ELSE IF sectionName \notin DOMAIN here
        THEN [flags |-> <<>>, seen |-> seen \cup {key}]
      ELSE LET section == here[sectionName]
               target == IF section.extends = "" THEN NoTarget
                         ELSE ExplicitTarget(section.extends, filePath)
               r1 == IF target = NoTarget
                       THEN [flags |-> <<>>, seen |-> seen \cup {key}]
                       ELSE ResolveRef(target.sectionName, target.filePath,
                                       seen \cup {key})
               r2 == IF PickupFor(section.extends, filePath)
                       THEN ResolveRef("env", mainIni, r1.seen)
                       ELSE [flags |-> <<>>, seen |-> r1.seen]
           IN  [flags |-> OwnTokens(section) \o r1.flags \o r2.flags,
                seen |-> r2.seen]

FlagsReturned == pc \in {"extract", "map"} \/ Resolved

\* C19: the list returned by resolveBuildFlags is exactly the section's own
\* build_flags tokens in source order (without ${ tokens), then the flags
\* resolved from its explicit extends target, then those of the root `env`
\* section when that pickup applies; nothing is reordered or deduplicated,
\* so a flag declared by the section and by its base section appears twice.
C19_OwnThenAncestors ==
  FlagsReturned =>
    /\ allFlags = ResolveRef(OwnName, OwnFile, {}).flags
    /\ (OwnSection.extends = "common" /\ "common" \in DOMAIN tree[OwnFile]) =>
         \A t \in Range(OwnTokens(OwnSection)) :
           t \in Range(OwnTokens(tree[OwnFile]["common"]))
             => Count(t, allFlags) >= 2

\* the same define is declared by the environment's section and by the base
\* section it extends, and the root `env` section is picked up after them
C19_Witness ==
  /\ Resolved
  /\ OwnSection.extends = "common"
  /\ allFlags = <<DefineFlag("GPS", ""), DefineFlag("GPS", ""), DefineFlag("PKI", "")>>

\* no file under the architecture directory defines the section
NotInArchFiles(name) ==
  \A f \in DOMAIN tree :
    StartsWith(f, Join(FIRMWARE_DIR, "arch") \o "/") => name \notin DOMAIN tree[f]

\* C20: for a section of a non-root file whose bare extends target T its
\* own file does not define: if no section T was found through the
\* architecture-base search and the root platformio.ini defines T, the root
\* file's T flags are appended to the result (stated for the environment's
\* own section: they follow its own flags in the returned list).
C20_RootBaseAppended ==
  (/\ FlagsReturned
   /\ OwnFile # mainIni
   /\ OwnSection.extends # ""
   /\ ~StartsWith(OwnSection.extends, "env:")
   /\ OwnSection.extends \notin DOMAIN tree[OwnFile]
   /\ NotInArchFiles(OwnSection.extends)
   /\ mainIni \in DOMAIN tree
   /\ OwnSection.extends \in DOMAIN tree[mainIni])
    => LET own == OwnTokens(OwnSection)
           base == OwnTokens(tree[mainIni][OwnSection.extends])
       IN  /\ Len(allFlags) >= Len(own) + Len(base)
           /\ SubSeq(allFlags, Len(own) + 1, Len(own) + Len(base)) = base

\* the activation's section declares a bare extends in a non-root file
\* while the root file defines `env`
BareInVariant(frame) ==
  LET section == tree[frame.filePath][frame.sectionName]
  IN  /\ frame.filePath # mainIni
      /\ section.extends # ""
      /\ ~StartsWith(section.extends, "env:")
      /\ mainIni \in DOMAIN tree
      /\ "env" \in DOMAIN tree[mainIni]

\* what resolving the explicit extends target of the environment's own
\* section yields, before the pickup
ExplicitPart ==
  LET target == ExplicitTarget(OwnSection.extends, OwnFile)
      seen == {VisitKey(OwnFile, OwnName)}
  IN  IF target = NoTarget THEN [flags |-> <<>>, seen |-> seen]
      ELSE ResolveRef(target.sectionName, target.filePath, seen)

\* C21: for a section of a non-root file with a bare extends, the flags of
\* the root file's `env` section are appended whenever the root file
\* defines `env` and (root, env) was not visited before in this pass,
\* whether or not the explicit target was resolved, and wherever.  At any
\* depth, an activation of such a section returns only after (root, env)
\* was visited; for the environment's own section, the root `env` tokens
\* follow the own flags and the explicit target's flags in the list.
C21_RootEnvAlwaysAppended ==
  /\ (pc = "resolve" /\ Top.pending = <<>> /\ BareInVariant(Top))
       => VisitKey(mainIni, "env") \in visited
  /\ (/\ FlagsReturned
      /\ BareInVariant([filePath |-> OwnFile, sectionName |-> OwnName])
      /\ VisitKey(mainIni, "env") \notin ExplicitPart.seen)
       => LET skip == Len(OwnTokens(OwnSection)) + Len(ExplicitPart.flags)
              envTokens == OwnTokens(tree[mainIni]["env"])
          IN  /\ Len(allFlags) >= skip + Len(envTokens)
              /\ SubSeq(allFlags, skip + 1, skip + Len(envTokens)) = envTokens

\* the explicit target was resolved in an architecture base file, and the
\* root `env` define still ends the list
C21_Witness ==
  /\ Resolved
  /\ OwnSection.extends = "nrf52_base"
  /\ archIni \in DOMAIN tree
  /\ "-DA_base" \in Range(allFlags)
  /\ allFlags[Len(allFlags)] = DefineFlag("PKI", "")

\* the file whose definition of an env: reference is used: the section's
\* own file if it defines the section, else the first file of the walk that
\* defines it, else none
ChosenEnvFile(name, filePath) ==
  LET hits == {i \in 1..Len(iniFiles) : name \in DOMAIN tree[iniFiles[i]]}
  IN  IF name \in DOMAIN tree[filePath] THEN filePath
      ELSE IF hits = {} THEN Null
      ELSE iniFiles[CHOOSE i \in hits : \A j \in hits : i <= j]

\* C22: for an extends value that is an env: section reference, the
\* definition in the section's own file is used if that file has one; only
\* if not, the first file found by the locator that defines it; and if no
\* file defines it, the reference contributes no flags (stated for the
\* environment's own section: the tokens of the chosen definition follow
\* its own tokens in the returned list).
C22_EnvReferenceSameFileFirst ==
  (/\ FlagsReturned
   /\ StartsWith(OwnSection.extends, "env:")
   /\ OwnSection.extends # OwnName)
    => LET own == OwnTokens(OwnSection)
           file == ChosenEnvFile(OwnSection.extends, OwnFile)
       IN  IF file = Null THEN allFlags = own
           ELSE LET used == OwnTokens(tree[file][OwnSection.extends])
                IN  /\ Len(allFlags) >= Len(own) + Len(used)
                    /\ SubSeq(allFlags, 1, Len(own) + Len(used)) = own \o used

\* [env:b] is defined by the section's own file, by the root file (met
\* first by the walk) and by a third file: the own file's definition is used
C22_Witness ==
  /\ Resolved
  /\ OwnSection.extends = "env:b"
  /\ mainIni \in DOMAIN tree
  /\ "env:b" \in DOMAIN tree[mainIni]
  /\ variantIniY \in DOMAIN tree
  /\ iniFiles[1] = mainIni
  /\ allFlags = <<"-DX_a", DefineFlag("GPS", ""), "-DX_b", DefineFlag("SCREEN", "")>>

ContParts(sh) ==
  (IF sh.value # "" THEN <<sh.value>> ELSE <<>>)
    \o [i \in 1..Cardinality({j \in 1..Len(sh.tail) : sh.tail[j].cont}) |->
          sh.tail[CHOOSE j \in 1..Len(sh.tail) :
                    /\ sh.tail[j].cont
                    /\ Cardinality({m \in 1..j : sh.tail[m].cont}) = i].text]

\* C13: a key line followed by indented continuation lines yields a single
\* key whose value is the key line's own value part (if not empty) and the
\* trimmed continuation lines, in order, joined by single spaces; blank and
\* comment lines between them do not end the continuation.
C13_ContinuationJoined ==
  (ppc = "parsed" /\ shape.kind = "cont") =>
    /\ DOMAIN iniSections = {shape.name}
    /\ iniSections[shape.name].data =
         [k \in {shape.key} |-> JoinSpace(ContParts(shape))]

\* two continuation lines with a comment line between them
C13_Witness ==
  /\ ppc = "parsed"
  /\ shape.kind = "cont"
  /\ shape.value = "-DA"
  /\ Len(shape.tail) = 3
  /\ shape.tail[1].cont
  /\ ~shape.tail[2].cont
  /\ shape.tail[2].line = "; note"
  /\ shape.tail[3].cont
  /\ iniSections["env:a"].data["build_flags"] = "-DA -DB -DC=1"

\* C14: inserting a comment line or a key-less line at any position inside
\* a section leaves the parsed key-to-value map of every section unchanged.
C14_InsertedLineInert ==
  ppc = "reparsed" =>
    /\ DOMAIN iniSections = DOMAIN iniBefore
    /\ \A n \in DOMAIN iniBefore : iniSections[n].data = iniBefore[n].data

\* C27: on an unchanged file, every environment name the listing returns
\* can be resolved: the parsed sections of the file contain env:<name>
\* (the header recognizer of the listing and that of the parser accept the
\* same header lines).
C27_ListedEnvironmentsParsed ==
  (ppc = "parsed" /\ environments.listed)
    => \A i \in 1..Len(environments.names) :
         ("env:" \o environments.names[i]) \in DOMAIN iniSections

(***************************************************************************)
(* Properties of the job manager and the build cache.                      *)
(***************************************************************************)
WithStatus(st) == {id \in DOMAIN jobs : jobs[id].status = st}

BuiltByDocker(id) == "Starting Docker build..." \in Range(jobs[id].progress)

JobsOf(config) == {id \in DOMAIN jobs : jobs[id].config = config}

\* C17: a configuration whose build succeeds is built by Docker at most
\* once; every other request with the identical configuration is returned
\* as a completed job from the cache.
C17_BuiltAtMostOnce ==
  \A config \in BuildConfigs :
    (\E id \in JobsOf(config) : BuiltByDocker(id) /\ jobs[id].status = "completed")
      => Cardinality({id \in JobsOf(config) : BuiltByDocker(id)}) <= 1

\* C18: configurations that differ in any setting get different cache keys,
\* and a job returned as completed from the cache is given an artifact that
\* was built from its own configuration.
C18_KeyIdentifiesConfig ==
  /\ \A a \in DOMAIN jobs, b \in DOMAIN jobs :
       jobs[a].config # jobs[b].config => jobs[a].cacheKey # jobs[b].cacheKey
  /\ \A id \in DOMAIN jobs :
       (jobs[id].status = "completed" /\ ~BuiltByDocker(id))
         => cacheDir[jobs[id].cacheKey].config = jobs[id].config

(***************************************************************************)
(* Properties of the web UI.                                               *)
(***************************************************************************)
RECURSIVE ImpliedFrom(_, _)
\* the options reached from the keys `todo` along `implies`
ImpliedFrom(todo, seen) ==
  IF todo = {} THEN seen
  ELSE LET k == CHOOSE x \in todo : TRUE
           next == IF k \in OptionKeys THEN Range(OptionOf(k).implies) ELSE {}
       IN  ImpliedFrom((todo \cup next) \ (seen \cup {k}), seen \cup {k})

ImpliesClosure(key) == ImpliedFrom(Range(OptionOf(key).implies), {})

\* C23: checking the minimizeBuild master switch leaves every option in the
\* transitive closure of its `implies` checked: all system exclusions,
\* excludeModules, and every module exclusion implied by excludeModules.
C23_MinimizeChecksClosure ==
  [][(/\ optionStates # NoJobs
      /\ ~optionStates["minimizeBuild"]
      /\ optionStates'["minimizeBuild"])
       => \A k \in ImpliesClosure("minimizeBuild") : optionStates'[k]]_vars

\* the changes of status the claim allows
StatusMoves ==
  {<<"queued", "building">>, <<"building", "completed">>, <<"building", "failed">>}

JobIds == {JobId(n) : n \in 1..MaxJobs}

EnabledAlone(flag) == Range(extractExclusionFlags(<<flag>>))

\* C25: the exclusion set depends only on which flags occur in the list,
\* not on their order or multiplicity, and is monotone: it is the union of
\* what each occurring flag enables alone, so a symbol enabled by one flag
\* stays in the set whatever other flag (a value 0 for the same symbol
\* included) comes before or after it.
C25_UnionOfFlags ==
  xpc = "returned"
    => Range(exclusions) = UNION {EnabledAlone(f) : f \in Range(buildFlags)}

\* a value 0 follows the flag that enables the symbol
C25_Witness ==
  /\ xpc = "returned"
  /\ buildFlags = <<DefineFlag("GPS", ""), DefineFlag("GPS", "=0")>>
  /\ exclusions = <<"GPS">>

\* C26: hardExclusions returned by getEnvironmentConfigDefaults contains
\* each config key at most once, whatever symbols were extracted (several
\* symbols, such as WIFI and WEBSERVER, may map to the same key).
C26_HardExclusionsNoDuplicate ==
  pc = "done"
    => \A i, j \in 1..Len(result.hardExclusions) :
         i # j => result.hardExclusions[i] # result.hardExclusions[j]

(***************************************************************************)
(* Properties that relate the worker's and the resolver's vocabularies.    *)
(***************************************************************************)
\* the exclusion config keys of the worker: those it turns into a
\* MESHTASTIC_EXCLUDE_ define flag
WorkerExclusionKeys ==
  {k \in WorkerKeys : StartsWith(WorkerFlag(k), DefineSwitch \o ExcludePrefix)}

\* C24: for every exclusion config key K that the worker turns into a define
\* flag F(K), extractExclusionFlags([F(K)]) followed by
\* mapExclusionToConfigKey returns K.
C24_WorkerRoundTrip ==
  \A K \in WorkerExclusionKeys :
    (xpc = "returned" /\ buildFlags = <<WorkerFlag(K)>>)
      => /\ Len(exclusions) = 1
         /\ ~MapThrows(exclusions[1])
         /\ mapExclusionToConfigKey(exclusions[1]) = K

(***************************************************************************)
(* Properties of the SSE progress stream.                                  *)
(***************************************************************************)
\* an event that reports status completed or failed, or Job not found
TerminalEvent(e) ==
  e \in {[status |-> "completed"], [status |-> "failed"],
         [error |-> "Job not found"]}

C30_AtMostOnePanel ==
  /\ ~(showProgress /\ showDownload)
  /\ ~(showProgress /\ showError)
  /\ ~(showDownload /\ showError)

====
